---- MODULE Spec2Model ----
(***************************************************************************)
(* State machine of the goldfish command engine (goldfish-core).           *)
(*                                                                         *)
(* The program state is State.zones: a map from ZoneType to an ordered     *)
(* Vec<Card>.  A zone missing from the HashMap behaves exactly like an     *)
(* empty one (get_zone inserts an empty Zone on first access), so `zones`  *)
(* is a total function and an absent zone is the empty sequence.           *)
(*                                                                         *)
(* Cards are values (name, set of types); the deck list holds several      *)
(* equal copies of one card, as read_from_file pushes card.clone().        *)
(* Sequences are 1-based here; every index that comes from the program     *)
(* (Specifier::Index, loop counters) is 0-based and is shifted on access.  *)
(***************************************************************************)
EXTENDS Naturals, Sequences, FiniteSets

VARIABLES
    zones,   \* State.zones : ZoneType -> sequence of cards
    pc,      \* session position: "prompt" (waiting for a call) or "executed";
             \* in ZoneSpec "call" before and "returned" after the function
    cmd,     \* the call that has just returned (history)
    prev,    \* State.zones as they were when that call started (history)
    result,  \* what that call returned: "ok" or the error
    restarted, \* the call before `cmd` was a restart that succeeded (history)
    input,   \* argument of a function applied on its own (ZoneSpec); in
             \* DrawSpec the commands of the run so far
    output   \* what that function returned

vars == <<zones, pc, cmd, prev, result, restarted, input, output>>

----------------------------------------------------------------------------
(* Bounds of the model *)

\* Specifier::Index(i) is tried for i in 0..MaxIndex
MaxIndex == 1
\* draw / mill / inspect counts are tried for n in 0..MaxCount
MaxCount == 2
\* ZoneSpec: zones of up to MaxZoneLen cards, indices 0..MaxZoneIndex
MaxZoneLen == 3
MaxZoneIndex == 3
\* ParseSpec: lines of a verb and up to MaxArgs fields
MaxArgs == 5

\* the number of commands of a run of draw, inspect and print
MaxRun == 4

(* Program constants *)

\* start_new_game draws seven cards
HandSize == 7

----------------------------------------------------------------------------
(* common.rs : ZoneType *)

ZoneType == {"Battlefield", "Deck", "Exile", "Graveyard", "Hand"}

(* state/card.rs : CardType *)

CardType == {"Artifact", "Creature", "Enchantment", "Instant", "Land",
             "Planeswalker", "Sorcery"}

\* CardType::is_permanent
CardType_is_permanent(t) ==
    CASE t \in {"Artifact", "Creature", "Enchantment", "Land", "Planeswalker"} -> TRUE
      [] t \in {"Instant", "Sorcery"} -> FALSE

----------------------------------------------------------------------------
(* A string is a TLA+ string; its characters, on which trim and            *)
(* to_lowercase work, are given by Spelling.                               *)

\* The words of the command lines of the model
LineWords ==
    {"bounce", "discard", "draw", "exile", "fetch", "help", "inspect", "load",
     "mill", "move", "play", "print", "restart", "sac", "shuffle", "tuck", "tutor",
     "bogus", "to", "from", "hand", "deck", "battlefield", "graveyard", "Deck",
     "$1", "$x", "$+2", "2", "+2", "x", "now", "seven", "eight", "two",
     "$", "$-1", "-1", "$18446744073709551616", "18446744073709551616"}

\* The strings of the model: the card names of the deck lists, the names a
\* caller passes, the empty string, and the words of the command lines.
Spelling ==
    [s \in {"Forest", "Opt", "Bear", "forest", " OPT ", "Island", ""} \cup LineWords |->
        CASE s = "Forest" -> <<"F","o","r","e","s","t">>
          [] s = "Bear"   -> <<"B","e","a","r">>
          [] s = "Opt"    -> <<"O","p","t">>
          [] s = "forest" -> <<"f","o","r","e","s","t">>
          [] s = " OPT "  -> <<" ","O","P","T"," ">>
          [] s = "Island" -> <<"I","s","l","a","n","d">>
          [] s = "bounce"      -> <<"b","o","u","n","c","e">>
          [] s = "discard"     -> <<"d","i","s","c","a","r","d">>
          [] s = "draw"        -> <<"d","r","a","w">>
          [] s = "exile"       -> <<"e","x","i","l","e">>
          [] s = "fetch"       -> <<"f","e","t","c","h">>
          [] s = "help"        -> <<"h","e","l","p">>
          [] s = "inspect"     -> <<"i","n","s","p","e","c","t">>
          [] s = "load"        -> <<"l","o","a","d">>
          [] s = "mill"        -> <<"m","i","l","l">>
          [] s = "move"        -> <<"m","o","v","e">>
          [] s = "play"        -> <<"p","l","a","y">>
          [] s = "print"       -> <<"p","r","i","n","t">>
          [] s = "restart"     -> <<"r","e","s","t","a","r","t">>
          [] s = "sac"         -> <<"s","a","c">>
          [] s = "shuffle"     -> <<"s","h","u","f","f","l","e">>
          [] s = "tuck"        -> <<"t","u","c","k">>
          [] s = "tutor"       -> <<"t","u","t","o","r">>
          [] s = "bogus"       -> <<"b","o","g","u","s">>
          [] s = "to"          -> <<"t","o">>
          [] s = "from"        -> <<"f","r","o","m">>
          [] s = "hand"        -> <<"h","a","n","d">>
          [] s = "deck"        -> <<"d","e","c","k">>
          [] s = "battlefield" -> <<"b","a","t","t","l","e","f","i","e","l","d">>
          [] s = "graveyard"   -> <<"g","r","a","v","e","y","a","r","d">>
          [] s = "Deck"        -> <<"D","e","c","k">>
          [] s = "$1"          -> <<"$","1">>
          [] s = "$x"          -> <<"$","x">>
          [] s = "$+2"         -> <<"$","+","2">>
          [] s = "2"           -> <<"2">>
          [] s = "+2"          -> <<"+","2">>
          [] s = "x"           -> <<"x">>
          [] s = "now"         -> <<"n","o","w">>
          [] s = "seven"     -> <<"s","e","v","e","n">>
          [] s = "eight"     -> <<"e","i","g","h","t">>
          [] s = "two"       -> <<"t","w","o">>
          [] s = "$"         -> <<"$">>
          [] s = "$-1"       -> <<"$","-","1">>
          [] s = "-1"        -> <<"-","1">>
          [] s = "$18446744073709551616" ->
                 <<"$","1","8","4","4","6","7","4","4","0","7","3","7","0","9",
                   "5","5","1","6","1","6">>
          [] s = "18446744073709551616" ->
                 <<"1","8","4","4","6","7","4","4","0","7","3","7","0","9",
                   "5","5","1","6","1","6">>
          [] s = ""       -> <<>>]

\* The characters of the model are those of ISO 8859-1 that print, without
\* the backquote, and the White_Space characters that can be written in a
\* string here.  char::is_whitespace and char::to_lowercase are tables over
\* these characters and have no value on any other.

\* the letters with a lowercase form: A..Z and U+00C0..U+00DE without U+00D7
UpperChars == <<"A","B","C","D","E","F","G","H","I","J","K","L","M",
               "N","O","P","Q","R","S","T","U","V","W","X","Y","Z",
               "À","Á","Â","Ã","Ä","Å","Æ","Ç","È","É","Ê","Ë","Ì",
               "Í","Î","Ï","Ð","Ñ","Ò","Ó","Ô","Õ","Ö","Ø","Ù","Ú",
               "Û","Ü","Ý","Þ">>
\* their lowercase forms, position by position
LowerChars == <<"a","b","c","d","e","f","g","h","i","j","k","l","m",
               "n","o","p","q","r","s","t","u","v","w","x","y","z",
               "à","á","â","ã","ä","å","æ","ç","è","é","ê","ë","ì",
               "í","î","ï","ð","ñ","ò","ó","ô","õ","ö","ø","ù","ú",
               "û","ü","ý","þ">>

\* the characters char::to_lowercase returns as they are: lowercase
\* letters, digits, signs
UncasedChars ==
    {"a","b","c","d","e","f","g","h","i","j","k","l","m","n","o","p",
     "q","r","s","t","u","v","w","x","y","z","0","1","2","3","4","5",
     "6","7","8","9","!","\"","#","$","%","&","'","(",")","*","+",",",
     "-",".","/",":",";","<","=",">","?","@","[","\\","]","^","_","{",
     "|","}","~","¡","¢","£","¤","¥","¦","§","¨","©","ª","«","¬","­",
     "®","¯","°","±","²","³","´","µ","¶","·","¸","¹","º","»","¼","½",
     "¾","¿","×","ß","à","á","â","ã","ä","å","æ","ç","è","é","ê","ë",
     "ì","í","î","ï","ð","ñ","ò","ó","ô","õ","ö","÷","ø","ù","ú","û",
     "ü","ý","þ","ÿ"}

\* White_Space: U+0009..U+000D, the space, U+0085, U+00A0, U+1680 (U+2000..
\* U+200A, U+2028, U+2029, U+202F, U+205F and U+3000 cannot be written)
WhitespaceChars == {"\t", "\n", "", "\f", "\r", " ", "", " ", " "}

\* the characters of the model
Alphabet ==
    {UpperChars[i] : i \in DOMAIN UpperChars} \cup UncasedChars
        \cup WhitespaceChars

\* char::to_lowercase, as a table over the characters of the model
LowerTable ==
    [c \in Alphabet |->
        IF \E i \in DOMAIN UpperChars : UpperChars[i] = c
        THEN LowerChars[CHOOSE i \in DOMAIN UpperChars : UpperChars[i] = c]
        ELSE c]

LowerChar(c) == LowerTable[c]

\* char::is_whitespace, as a table over the characters of the model
WhitespaceTable == [c \in Alphabet |-> c \in WhitespaceChars]

IsWhitespace(c) == WhitespaceTable[c]

\* str::to_lowercase, on characters
to_lowercase(s) == [i \in DOMAIN s |-> LowerChar(s[i])]

\* str::trim, on characters: drop leading and trailing whitespace
trim(s) ==
    LET keep == {i \in DOMAIN s : ~IsWhitespace(s[i])}
    IN  IF keep = {} THEN <<>>
        ELSE LET lo == CHOOSE i \in keep : \A j \in keep : i <= j
                 hi == CHOOSE i \in keep : \A j \in keep : j <= i
             IN  SubSeq(s, lo, hi)

\* s.trim().to_lowercase() of every string of the model
TrimmedLowercase == [s \in DOMAIN Spelling |-> to_lowercase(trim(Spelling[s]))]

----------------------------------------------------------------------------
(* state/card.rs : Card *)

Card(name, types) == [name |-> name, types |-> types]

\* Faulty variant of is_named: names compared as written, without trim and
\* to_lowercase.
is_named_Exact(card, name) == card.name = name

\* Card::is_named
is_named(card, name) == TrimmedLowercase[card.name] = TrimmedLowercase[name]

\* Card::is_permanent
is_permanent(card) == \E t \in card.types : CardType_is_permanent(t)

\* CardExt::is_land, CardExt::is_creature (the card-data provider's
\* classification of the card)
is_land(card) == "Land" \in card.types
is_creature(card) == "Creature" \in card.types

----------------------------------------------------------------------------
(* common.rs : Specifier *)

NoName == ""

CardName(name) == [kind |-> "CardName", name |-> name, i |-> 0]
Index(i) == [kind |-> "Index", name |-> NoName, i |-> i]

----------------------------------------------------------------------------
(* state.rs : Zone *)

\* Vec::remove(i), i 0-based and in range
VecRemove(cards, i) ==
    SubSeq(cards, 1, i) \o SubSeq(cards, i + 2, Len(cards))

Found(card, cards) == [err |-> "ok", card |-> card, cards |-> cards]
NotFound(cards) == [err |-> "not found!", card |-> Card(NoName, {}), cards |-> cards]

\* Zone::remove_card_by_name
remove_card_by_name(cards, name) ==
    LET hits == {i \in 0 .. Len(cards) - 1 : is_named(cards[i + 1], name)}
    IN  IF hits = {} THEN NotFound(cards)
        ELSE LET i == CHOOSE h \in hits : \A k \in hits : h <= k
             IN  Found(cards[i + 1], VecRemove(cards, i))

\* Faulty variant of remove_card_by_index: Vec::swap_remove for Vec::remove.
remove_card_by_index_SwapRemove(cards, i) ==
    IF i >= Len(cards) THEN NotFound(cards)
    ELSE Found(cards[i + 1],
               IF i + 1 = Len(cards) THEN SubSeq(cards, 1, i)
               ELSE SubSeq([cards EXCEPT ![i + 1] = cards[Len(cards)]], 1, Len(cards) - 1))

\* Zone::remove_card_by_index
remove_card_by_index(cards, i) ==
    IF i >= Len(cards) THEN NotFound(cards)
    ELSE Found(cards[i + 1], VecRemove(cards, i))

\* Zone::remove_card
remove_card(cards, card) ==
    CASE card.kind = "CardName" -> remove_card_by_name(cards, card.name)
      [] card.kind = "Index" -> remove_card_by_index(cards, card.i)

----------------------------------------------------------------------------
(* state.rs : State.  Every method is a function of the zones before the  *)
(* call to an outcome [err, zones]; a method that shuffles yields the set  *)
(* of its possible outcomes.                                               *)

Outcome(err, z) == [err |-> err, zones |-> z]

EmptyZones == [t \in ZoneType |-> <<>>]

\* State::get_zone, read
get_zone(z, zone_type) == z[zone_type]

\* assignment through the &mut Zone that get_zone returns
set_zone(z, zone_type, cards) == [z EXCEPT ![zone_type] = cards]

\* Faulty variant of play_card: every card goes to the battlefield.
play_card_AlwaysBattlefield(z, card) ==
    set_zone(z, "Battlefield", Append(get_zone(z, "Battlefield"), card))

\* State::play_card
play_card(z, card) ==
    IF is_permanent(card)
    THEN set_zone(z, "Battlefield", Append(get_zone(z, "Battlefield"), card))
    ELSE set_zone(z, "Graveyard", Append(get_zone(z, "Graveyard"), card))

\* Faulty variant of move_card: no early return for a move of a zone to
\* itself.
move_card_NoSelfMove(z, card, from, to) ==
    LET r == remove_card(get_zone(z, from), card)
        removed == set_zone(z, from, r.cards)
    IN  IF r.err # "ok" THEN Outcome(r.err, z)
        ELSE IF to = "Battlefield" /\ ~is_permanent(r.card)
             THEN Outcome("not a permanent", removed)
             ELSE Outcome("ok",
                          set_zone(removed, to, Append(get_zone(removed, to), r.card)))

\* Faulty variant of move_card: the card is put at the front of the
\* destination.
move_card_PushFront(z, card, from, to) ==
    IF from = to /\ to # "Deck" THEN Outcome("ok", z)
    ELSE LET r == remove_card(get_zone(z, from), card)
             removed == set_zone(z, from, r.cards)
         IN  IF r.err # "ok" THEN Outcome(r.err, z)
             ELSE IF to = "Battlefield" /\ ~is_permanent(r.card)
                  THEN Outcome("not a permanent", removed)
                  ELSE Outcome("ok",
                               set_zone(removed, to, <<r.card>> \o get_zone(removed, to)))

\* Faulty variant of move_card: a move of any zone to itself, the deck too,
\* returns at once.
move_card_DeckSelfNoOp(z, card, from, to) ==
    IF from = to THEN Outcome("ok", z)
    ELSE LET r == remove_card(get_zone(z, from), card)
             removed == set_zone(z, from, r.cards)
         IN  IF r.err # "ok" THEN Outcome(r.err, z)
             ELSE IF to = "Battlefield" /\ ~is_permanent(r.card)
                  THEN Outcome("not a permanent", removed)
                  ELSE Outcome("ok",
                               set_zone(removed, to, Append(get_zone(removed, to), r.card)))

\* Faulty variant of move_card: a card bound for the battlefield is not
\* asked whether it is a permanent.
move_card_NoPermanentCheck(z, card, from, to) ==
    IF from = to /\ to # "Deck" THEN Outcome("ok", z)
    ELSE LET r == remove_card(get_zone(z, from), card)
             removed == set_zone(z, from, r.cards)
         IN  IF r.err # "ok" THEN Outcome(r.err, z)
             ELSE Outcome("ok",
                          set_zone(removed, to, Append(get_zone(removed, to), r.card)))

\* Faulty variant of move_card: the card is pushed on the destination and
\* stays in the source as well.
move_card_Copy(z, card, from, to) ==
    IF from = to /\ to # "Deck" THEN Outcome("ok", z)
    ELSE LET r == remove_card(get_zone(z, from), card)
         IN  IF r.err # "ok" THEN Outcome(r.err, z)
             ELSE IF to = "Battlefield" /\ ~is_permanent(r.card)
                  THEN Outcome("not a permanent", set_zone(z, from, r.cards))
                  ELSE Outcome("ok", set_zone(z, to, Append(get_zone(z, to), r.card)))

\* State::move_card
move_card(z, card, from, to) ==
    IF from = to /\ to # "Deck" THEN Outcome("ok", z)
    ELSE LET r == remove_card(get_zone(z, from), card)
             removed == set_zone(z, from, r.cards)
         IN  IF r.err # "ok" THEN Outcome(r.err, z)
             ELSE IF to = "Battlefield" /\ ~is_permanent(r.card)
                  \* the card was taken out of `from` and is dropped here
                  THEN Outcome("not a permanent", removed)
                  ELSE Outcome("ok",
                               set_zone(removed, to, Append(get_zone(removed, to), r.card)))

\* State::bounce
bounce(z, card) == move_card(z, card, "Battlefield", "Hand")

\* State::discard
discard(z, card) == move_card(z, card, "Hand", "Graveyard")

\* Faulty variant of draw: the card is taken from the bottom of the deck.
draw_FromBottom(z) ==
    LET deck == get_zone(z, "Deck")
    IN  move_card(z, Index(IF deck = <<>> THEN 0 ELSE Len(deck) - 1), "Deck", "Hand")

\* State::draw
draw(z) == move_card(z, Index(0), "Deck", "Hand")

\* Faulty variant of draw_n: a draw_n that cannot finish draws nothing.
draw_n_AllOrNothing(z, n) ==
    LET deck == get_zone(z, "Deck")
    IN  IF Len(deck) < n THEN Outcome("not found!", z)
        ELSE Outcome("ok", set_zone(set_zone(z, "Hand",
                                             get_zone(z, "Hand") \o SubSeq(deck, 1, n)),
                                    "Deck", SubSeq(deck, n + 1, Len(deck))))

\* State::draw_n : the loop stops at the first draw that fails
RECURSIVE draw_n(_, _)
draw_n(z, n) ==
    IF n = 0 THEN Outcome("ok", z)
    ELSE LET d == draw(z)
         IN  IF d.err # "ok" THEN d ELSE draw_n(d.zones, n - 1)

\* State::exile
exile(z, card, from) == move_card(z, card, from, "Exile")

\* Faulty variant of mill: a mill that cannot finish mills nothing.
mill_AllOrNothing(z, n) ==
    LET deck == get_zone(z, "Deck")
    IN  IF Len(deck) < n THEN Outcome("not found!", z)
        ELSE Outcome("ok", set_zone(set_zone(z, "Graveyard",
                                             get_zone(z, "Graveyard") \o SubSeq(deck, 1, n)),
                                    "Deck", SubSeq(deck, n + 1, Len(deck))))

\* State::mill
RECURSIVE mill(_, _)
mill(z, n) ==
    IF n = 0 THEN Outcome("ok", z)
    ELSE LET m == move_card(z, Index(0), "Deck", "Graveyard")
         IN  IF m.err # "ok" THEN m ELSE mill(m.zones, n - 1)

\* State::play
play(z, card) ==
    LET r == remove_card(get_zone(z, "Hand"), card)
    IN  IF r.err # "ok" THEN Outcome(r.err, z)
        ELSE Outcome("ok", play_card(set_zone(z, "Hand", r.cards), r.card))

\* State::sacrifice
sacrifice(z, card) == move_card(z, card, "Battlefield", "Graveyard")

\* State::tuck
tuck(z, card, from) == move_card(z, card, from, "Deck")

\* removal of the first occurrence of a value (helper of Shuffles)
RemoveFirst(cards, c) ==
    VecRemove(cards, (CHOOSE i \in DOMAIN cards :
                         cards[i] = c /\ \A j \in 1 .. i - 1 : cards[j] # c) - 1)

\* slice::shuffle : every order of the same cards is possible
RECURSIVE Shuffles(_)
Shuffles(cards) ==
    IF cards = <<>> THEN {<<>>}
    ELSE UNION {{<<c>> \o rest : rest \in Shuffles(RemoveFirst(cards, c))} :
                c \in {cards[i] : i \in DOMAIN cards}}

\* Faulty variant of shuffle: the hand is reordered, the deck is left.
shuffle_Hand(z) == {set_zone(z, "Hand", h) : h \in Shuffles(get_zone(z, "Hand"))}

\* State::shuffle
shuffle(z) == {set_zone(z, "Deck", d) : d \in Shuffles(get_zone(z, "Deck"))}

\* Faulty variant of fetch: the deck is shuffled before the card is looked up.
fetch_ShuffleFirst(z, name) ==
    UNION {LET r == remove_card(get_zone(s, "Deck"), CardName(name))
           IN  IF r.err # "ok" THEN {Outcome(r.err, s)}
               ELSE {Outcome("ok", play_card(set_zone(s, "Deck", r.cards), r.card))}
           : s \in shuffle(z)}

\* Faulty variant of fetch: when the deck has a card of the name, the top
\* card of the deck is the one that is played.
fetch_FromTop(z, name) ==
    LET r == remove_card(get_zone(z, "Deck"), CardName(name))
        t == remove_card(get_zone(z, "Deck"), Index(0))
    IN  IF r.err # "ok" THEN {Outcome(r.err, z)}
        ELSE {Outcome("ok", s) : s \in shuffle(play_card(set_zone(z, "Deck", t.cards), t.card))}

\* State::fetch
fetch(z, name) ==
    LET r == remove_card(get_zone(z, "Deck"), CardName(name))
    IN  IF r.err # "ok" THEN {Outcome(r.err, z)}
        ELSE {Outcome("ok", s) : s \in shuffle(play_card(set_zone(z, "Deck", r.cards), r.card))}

\* Faulty variant of tutor: the hand is shuffled instead of the deck.
tutor_ShuffleHand(z, name) ==
    LET m == move_card(z, CardName(name), "Deck", "Hand")
    IN  IF m.err # "ok" THEN {m}
        ELSE {Outcome("ok", set_zone(m.zones, "Hand", h)) :
                  h \in Shuffles(get_zone(m.zones, "Hand"))}

\* State::tutor
tutor(z, name) ==
    LET m == move_card(z, CardName(name), "Deck", "Hand")
    IN  IF m.err # "ok" THEN {m}
        ELSE {Outcome("ok", s) : s \in shuffle(m.zones)}

\* The order in which start_new_game visits the zones of the HashMap.  The
\* deck is shuffled right after, so every visiting order gives the same set
\* of outcomes.
ZoneOrder == <<"Battlefield", "Deck", "Exile", "Graveyard", "Hand">>

\* Faulty variant of start_new_game: the graveyard is not gathered.
start_new_game_KeepGraveyard(z) ==
    LET cards == z["Battlefield"] \o z["Deck"] \o z["Exile"] \o z["Hand"]
        gathered == set_zone(set_zone(EmptyZones, "Graveyard", z["Graveyard"]),
                             "Deck", cards)
    IN  {draw_n(s, HandSize) : s \in shuffle(gathered)}

\* Faulty variant of start_new_game: the failure of draw_n is not passed on.
start_new_game_IgnoreDraw(z) ==
    LET cards == z[ZoneOrder[1]] \o z[ZoneOrder[2]] \o z[ZoneOrder[3]]
                 \o z[ZoneOrder[4]] \o z[ZoneOrder[5]]
        gathered == set_zone(EmptyZones, "Deck", cards)
    IN  {Outcome("ok", draw_n(s, HandSize).zones) : s \in shuffle(gathered)}

\* State::start_new_game
start_new_game(z) ==
    LET cards == z[ZoneOrder[1]] \o z[ZoneOrder[2]] \o z[ZoneOrder[3]]
                 \o z[ZoneOrder[4]] \o z[ZoneOrder[5]]
        gathered == set_zone(EmptyZones, "Deck", cards)
    IN  {draw_n(s, HandSize) : s \in shuffle(gathered)}

\* one line of State::inspect : "    {i}) {name}"
InspectLine(i, card) == <<"    ", i, ") ", card.name>>

\* Faulty variant of inspect: the cards that are shown are taken off the deck.
inspect_Pop(z, n) ==
    LET deck == get_zone(z, "Deck")
        shown == IF n < Len(deck) THEN n ELSE Len(deck)
    IN  [zones |-> set_zone(z, "Deck", SubSeq(deck, shown + 1, Len(deck))),
         lines |-> IF n = 0 THEN <<>>
                   ELSE IF deck = <<>> THEN << <<"no cards in deck">>, <<>> >>
                   ELSE << <<"cards on top of deck:">> >>
                        \o [i \in 1 .. shown |-> InspectLine(i - 1, deck[i])]
                        \o << <<>> >>]

\* State::inspect : the zones after the call (get_zone makes sure the deck
\* has an entry, an absent deck and an empty deck being the same zone here)
\* and the lines it prints, an empty line being <<>>
inspect(z, n) ==
    LET deck == get_zone(z, "Deck")
        shown == IF n < Len(deck) THEN n ELSE Len(deck)
    IN  [zones |-> set_zone(z, "Deck", deck),
         lines |-> IF n = 0 THEN <<>>
                   ELSE IF deck = <<>> THEN << <<"no cards in deck">>, <<>> >>
                   ELSE << <<"cards on top of deck:">> >>
                        \o [i \in 1 .. shown |-> InspectLine(i - 1, deck[i])]
                        \o << <<>> >>]

\* Faulty variant of SortKey: the card is asked first whether it is a
\* creature.
SortKey_CreatureFirst(card) ==
    IF is_creature(card) THEN 1 ELSE IF is_land(card) THEN 3 ELSE 2

\* sort key of State::sort_battlefield
SortKey(card) == IF is_land(card) THEN 3 ELSE IF is_creature(card) THEN 1 ELSE 2

\* slice::sort_by_key : stable
StableSort(cards) ==
    LET byKey(k) == SelectSeq(cards, LAMBDA c : SortKey(c) = k)
    IN  byKey(1) \o byKey(2) \o byKey(3)

\* State::sort_battlefield
sort_battlefield(z) ==
    IF get_zone(z, "Battlefield") = <<>> THEN z
    ELSE set_zone(z, "Battlefield", StableSort(get_zone(z, "Battlefield")))

\* common.rs : PrintTarget
PrintTarget == {"Default", "Exile", "Graveyard"}

\* State::print : lists one zone, or returns at once for the default target
print(z, target) == z

\* a printed line of the battlefield: the name of the band and, for each
\* card, "{i}) {name}"; the empty line is BlankLine
BandLine(label, entries) == [label |-> label, entries |-> entries]
BandEntry(i, card) == [i |-> i, name |-> card.name]
BlankLine == BandLine("", <<>>)

\* the filter closures print_battlefield passes with each line name
BandFilter(line_name, card) ==
    CASE line_name = "creatures" -> is_creature(card) /\ ~is_land(card)
      [] line_name = "permanents" -> is_permanent(card) /\ ~is_land(card)
      [] line_name = "lands" -> is_land(card)

\* State::print_battlefield_line : the run of cards from position
\* previous_count on that pass the filter is printed on one line, each card
\* with its position in the battlefield; no line for an empty run
print_battlefield_line(z, line_name, previous_count) ==
    LET filter(card) == BandFilter(line_name, card)
        cards == get_zone(z, "Battlefield")
        left == Len(cards) - previous_count
        current_count ==
            CHOOSE n \in 0 .. left :
                /\ \A k \in 1 .. n : filter(cards[previous_count + k])
                /\ n = left \/ ~filter(cards[previous_count + n + 1])
    IN  [count |-> current_count,
         lines |-> IF current_count = 0 THEN <<>>
                   ELSE <<BandLine(line_name,
                                   [k \in 1 .. current_count |->
                                       BandEntry(previous_count + k - 1,
                                                 cards[previous_count + k])])>>]

\* Faulty variant of print_battlefield: the cards of each band are numbered
\* from 0.
print_battlefield_BandIndex(z) ==
    LET sorted == sort_battlefield(z)
        creatures == print_battlefield_line(sorted, "creatures", 0)
        permanents == print_battlefield_line(sorted, "permanents", creatures.count)
        lands == print_battlefield_line(sorted, "lands",
                                        creatures.count + permanents.count)
        all == creatures.lines \o permanents.lines \o lands.lines
    IN  [zones |-> sorted,
         lines |-> [l \in DOMAIN all |->
                       BandLine(all[l].label,
                                [k \in DOMAIN all[l].entries |->
                                    [i |-> k - 1, name |-> all[l].entries[k].name]])]
                   \o <<BlankLine>>]

\* State::print_battlefield : the battlefield is sorted in place, then the
\* three bands are printed, then an empty line
print_battlefield(z) ==
    LET sorted == sort_battlefield(z)
        creatures == print_battlefield_line(sorted, "creatures", 0)
        permanents == print_battlefield_line(sorted, "permanents", creatures.count)
        lands == print_battlefield_line(sorted, "lands",
                                        creatures.count + permanents.count)
    IN  [zones |-> sorted,
         lines |-> creatures.lines \o permanents.lines \o lands.lines \o <<BlankLine>>]

\* State::print_game_state : the zones after it.  print_battlefield leaves
\* the battlefield sorted; print_hand and print_zone_count take &self and
\* print
print_game_state(z) == sort_battlefield(z)

\* Goldfish::print_state : the zones it can leave.  lib.rs:39 calls
\* State::print without a target, a signature state.rs does not have: the
\* call is State::print(PrintTarget::Default), which returns at once, or
\* State::print_game_state, which prints the game and sorts the
\* battlefield.  Both are kept.
print_state(z) == {print(z, "Default"), print_game_state(z)}

----------------------------------------------------------------------------
(* parse.rs : the parser.  A line is given as its fields, the pieces      *)
(* between single whitespace characters; a run of whitespace gives empty   *)
(* fields.  A field is a string of the model; text the parser builds       *)
(* (a joined specifier, the word quoted in a message) is a sequence of     *)
(* characters.                                                             *)

\* str::split_whitespace : the non-empty fields, in order
split_whitespace(line) == SelectSeq(line, LAMBDA f : Spelling[f] # <<>>)

\* Input::new
Input_new(line) == split_whitespace(line)

\* [&str]::join(" ")
RECURSIVE join(_)
join(parts) ==
    IF parts = <<>> THEN <<>>
    ELSE IF Len(parts) = 1 THEN Spelling[parts[1]]
    ELSE Spelling[parts[1]] \o <<" ">> \o join(Tail(parts))

DigitChars == <<"0","1","2","3","4","5","6","7","8","9">>

IsDigit(c) == \E d \in DOMAIN DigitChars : DigitChars[d] = c

DigitValue(c) == (CHOOSE d \in DOMAIN DigitChars : DigitChars[d] = c) - 1

RECURSIVE DecimalValue(_)
DecimalValue(digits) ==
    IF digits = <<>> THEN 0
    ELSE 10 * DecimalValue(SubSeq(digits, 1, Len(digits) - 1))
         + DigitValue(digits[Len(digits)])

\* usize::MAX of a 64-bit target, in decimal
UsizeMaxDigits ==
    <<"1","8","4","4","6","7","4","4","0","7","3","7","0","9","5","5","1","6","1","5">>

\* digits without their leading zeros
RECURSIVE Significant(_)
Significant(digits) ==
    IF digits # <<>> /\ digits[1] = "0" THEN Significant(Tail(digits)) ELSE digits

\* the number written by the digits is at most usize::MAX: from_str fails
\* with PosOverflow otherwise
FitsUsize(digits) ==
    LET sig == Significant(digits)
        max == UsizeMaxDigits
    IN  \/ Len(sig) < Len(max)
        \/ /\ Len(sig) = Len(max)
           /\ \/ sig = max
              \/ \E k \in DOMAIN sig :
                     /\ DigitValue(sig[k]) < DigitValue(max[k])
                     /\ \A j \in 1 .. k - 1 : sig[j] = max[j]

\* usize::from_str : an optional "+", then one or more decimal digits of a
\* number that fits a usize
parse_usize(text) ==
    LET digits == IF text # <<>> /\ text[1] = "+" THEN Tail(text) ELSE text
    IN  IF /\ digits # <<>>
           /\ \A k \in DOMAIN digits : IsDigit(digits[k])
           /\ FitsUsize(digits)
        THEN [ok |-> TRUE, value |-> DecimalValue(digits)]
        ELSE [ok |-> FALSE, value |-> 0]

\* Specifier as the parser builds it: the name is text
ParsedCardName(text) == [kind |-> "CardName", name |-> text, i |-> 0]
ParsedIndex(i) == [kind |-> "Index", name |-> <<>>, i |-> i]
NoSpecifier == [kind |-> "none", name |-> <<>>, i |-> 0]

\* common.rs : Statement.  One record shape for every variant; a field a
\* variant does not have keeps its value of Statement("...")
Statement(op) ==
    [op |-> op, card |-> NoSpecifier, from |-> "none", to |-> "none",
     n |-> 0, text |-> <<>>, target |-> "none"]

NoStatement == Statement("none")

\* Result<Statement> : Ok(statement), or the message of bail!, written
\* without its backquotes, with in `arg` the text that stands for {}
ParseOk(statement) == [err |-> "ok", arg |-> <<>>, statement |-> statement]
ParseErr(msg, arg) == [err |-> msg, arg |-> arg, statement |-> NoStatement]

\* Faulty variant of split_off_at: the parts are split at the first `item`.
split_off_at_Leftmost(parts, item) ==
    LET hits == {k \in DOMAIN parts : parts[k] = item}
    IN  IF hits = {} THEN [found |-> FALSE, rest |-> <<>>, parts |-> parts]
        ELSE LET k == CHOOSE h \in hits : \A g \in hits : h <= g
             IN  [found |-> TRUE,
                  rest |-> SubSeq(parts, k + 1, Len(parts)),
                  parts |-> SubSeq(parts, 1, k - 1)]

\* Input::split_off_at : the parts after the last `item`; `item` and what
\* follows it are taken off the parts
split_off_at(parts, item) ==
    LET hits == {k \in DOMAIN parts : parts[k] = item}
    IN  IF hits = {} THEN [found |-> FALSE, rest |-> <<>>, parts |-> parts]
        ELSE LET k == CHOOSE h \in hits : \A g \in hits : g <= h
             IN  [found |-> TRUE,
                  rest |-> SubSeq(parts, k + 1, Len(parts)),
                  parts |-> SubSeq(parts, 1, k - 1)]

\* ZoneType::parse
ZoneType_parse(location) ==
    CASE location = "battlefield" -> [err |-> "ok", arg |-> <<>>, zone |-> "Battlefield"]
      [] location = "deck"        -> [err |-> "ok", arg |-> <<>>, zone |-> "Deck"]
      [] location = "exile"       -> [err |-> "ok", arg |-> <<>>, zone |-> "Exile"]
      [] location = "graveyard"   -> [err |-> "ok", arg |-> <<>>, zone |-> "Graveyard"]
      [] location = "hand"        -> [err |-> "ok", arg |-> <<>>, zone |-> "Hand"]
      [] OTHER -> [err |-> "{} is not a known location",
                   arg |-> Spelling[location], zone |-> "none"]

\* PrintTarget::parse
PrintTarget_parse(location) ==
    CASE location = "exile"     -> [err |-> "ok", arg |-> <<>>, target |-> "Exile"]
      [] location = "graveyard" -> [err |-> "ok", arg |-> <<>>, target |-> "Graveyard"]
      [] OTHER -> [err |-> "{} is not a known location",
                   arg |-> Spelling[location], target |-> "none"]

\* Faulty variant of parse_specifier: a string that begins with `$` but
\* holds no index is taken as a card name.
parse_specifier_NameOnError(parts) ==
    IF parts = <<>>
    THEN [err |-> "missing card specifier", arg |-> <<>>, card |-> NoSpecifier]
    ELSE LET spec == join(parts)
             i == parse_usize(Tail(spec))
         IN  IF spec[1] = "$" /\ i.ok
             THEN [err |-> "ok", arg |-> <<>>, card |-> ParsedIndex(i.value)]
             ELSE [err |-> "ok", arg |-> <<>>, card |-> ParsedCardName(spec)]

\* Input::parse_specifier : [err, arg, card]
parse_specifier(parts) ==
    IF parts = <<>>
    THEN [err |-> "missing card specifier", arg |-> <<>>, card |-> NoSpecifier]
    ELSE LET spec == join(parts)
         IN  IF spec[1] # "$"
             THEN [err |-> "ok", arg |-> <<>>, card |-> ParsedCardName(spec)]
             ELSE LET i == parse_usize(Tail(spec))
                  IN  IF i.ok
                      THEN [err |-> "ok", arg |-> <<>>, card |-> ParsedIndex(i.value)]
                      ELSE [err |-> "{} is not numeric after the $",
                            arg |-> spec, card |-> NoSpecifier]

\* parse_bounce, parse_discard, parse_play, parse_sacrifice
parse_card_statement(op, parts) ==
    LET card == parse_specifier(parts)
    IN  IF card.err # "ok" THEN ParseErr(card.err, card.arg)
        ELSE ParseOk([Statement(op) EXCEPT !.card = card.card])

\* parse_draw, parse_inspect : no count means 1
parse_optional_count(op, parts, many, invalid) ==
    IF parts = <<>> THEN ParseOk([Statement(op) EXCEPT !.n = 1])
    ELSE IF Len(parts) > 1 THEN ParseErr(many, <<>>)
    ELSE LET count == parse_usize(Spelling[parts[1]])
         IN  IF count.ok THEN ParseOk([Statement(op) EXCEPT !.n = count.value])
             ELSE ParseErr(invalid, Spelling[parts[1]])

\* Input::parse_draw
parse_draw(parts) ==
    parse_optional_count("Draw", parts, "draw needs a single-word count",
                         "{} is not a valid numeric count for draw")

\* Input::parse_inspect
parse_inspect(parts) ==
    parse_optional_count("Inspect", parts, "inspect needs a single-word count",
                         "{} is not a valid numeric count for inspect")

\* Faulty variant of parse_mill: no count means 1, as for draw.
parse_mill_DefaultOne(parts) ==
    parse_optional_count("Mill", parts, "mill needs a single word count",
                         "{} is not a valid numeric count for mill")

\* Input::parse_mill
parse_mill(parts) ==
    IF Len(parts) # 1 THEN ParseErr("mill needs a single word count", <<>>)
    ELSE LET count == parse_usize(Spelling[parts[1]])
         IN  IF count.ok THEN ParseOk([Statement("Mill") EXCEPT !.n = count.value])
             ELSE ParseErr("{} is not a valid numeric count for mill",
                           Spelling[parts[1]])

\* parse_exile, parse_tuck : "<specifier> from <zone>"
parse_from_statement(op, parts, missing, empty, many) ==
    LET source == split_off_at(parts, "from")
    IN  IF ~source.found THEN ParseErr(missing, <<>>)
        ELSE IF source.rest = <<>> THEN ParseErr(empty, <<>>)
        ELSE IF Len(source.rest) > 1 THEN ParseErr(many, <<>>)
        ELSE LET from == ZoneType_parse(source.rest[1])
                 card == parse_specifier(source.parts)
             IN  IF from.err # "ok" THEN ParseErr(from.err, from.arg)
                 ELSE IF card.err # "ok" THEN ParseErr(card.err, card.arg)
                 ELSE ParseOk([Statement(op) EXCEPT !.card = card.card,
                                                    !.from = from.zone])

\* Input::parse_exile
parse_exile(parts) ==
    parse_from_statement("Exile", parts,
                         "exile needs to specify source with from",
                         "exile needs source after from",
                         "exile needs a single-word source")

\* Input::parse_tuck
parse_tuck(parts) ==
    parse_from_statement("Tuck", parts,
                         "tuck needs to specify source with from",
                         "tuck needs source after from",
                         "tuck needs a single-word source")

\* parse_help, parse_restart, parse_shuffle : no words may follow
parse_bare_statement(op, parts, extra) ==
    IF parts # <<>> THEN ParseErr(extra, <<>>) ELSE ParseOk(Statement(op))

\* parse_fetch, parse_load, parse_tutor : the rest of the line is the text
parse_text_statement(op, parts) == ParseOk([Statement(op) EXCEPT !.text = join(parts)])

\* Input::parse_print
parse_print(parts) ==
    IF parts = <<>> THEN ParseOk([Statement("Print") EXCEPT !.target = "Default"])
    ELSE IF Len(parts) > 1
    THEN ParseErr("print either needs no target or a one-word target", <<>>)
    ELSE LET target == PrintTarget_parse(parts[1])
         IN  IF target.err # "ok" THEN ParseErr(target.err, target.arg)
             ELSE ParseOk([Statement("Print") EXCEPT !.target = target.target])

\* Faulty variant of parse_move: a move without `from` takes its card from
\* the hand.
parse_move_FromHand(parts) ==
    LET destination == split_off_at(parts, "to")
    IN  IF ~destination.found
        THEN ParseErr("move needs to specify destination with to", <<>>)
        ELSE IF destination.rest = <<>>
        THEN ParseErr("move needs destination after to", <<>>)
        ELSE IF Len(destination.rest) > 1
        THEN ParseErr("move needs a single-word destination", <<>>)
        ELSE LET to == ZoneType_parse(destination.rest[1])
                 source == split_off_at(destination.parts, "from")
             IN  IF to.err # "ok" THEN ParseErr(to.err, to.arg)
                 ELSE IF ~source.found
                 THEN LET card == parse_specifier(source.parts)
                      IN  IF card.err # "ok" THEN ParseErr(card.err, card.arg)
                          ELSE ParseOk([Statement("Move") EXCEPT !.card = card.card,
                                                                !.from = "Hand",
                                                                !.to = to.zone])
                 ELSE IF source.rest = <<>>
                 THEN ParseErr("move needs source after from", <<>>)
                 ELSE IF Len(source.rest) > 1
                 THEN ParseErr("move needs a single-word source", <<>>)
                 ELSE LET from == ZoneType_parse(source.rest[1])
                          card == parse_specifier(source.parts)
                      IN  IF from.err # "ok" THEN ParseErr(from.err, from.arg)
                          ELSE IF card.err # "ok" THEN ParseErr(card.err, card.arg)
                          ELSE ParseOk([Statement("Move") EXCEPT !.card = card.card,
                                                                !.from = from.zone,
                                                                !.to = to.zone])

\* Input::parse_move : the destination is split off first, then the source
parse_move(parts) ==
    LET destination == split_off_at(parts, "to")
    IN  IF ~destination.found
        THEN ParseErr("move needs to specify destination with to", <<>>)
        ELSE IF destination.rest = <<>>
        THEN ParseErr("move needs destination after to", <<>>)
        ELSE IF Len(destination.rest) > 1
        THEN ParseErr("move needs a single-word destination", <<>>)
        ELSE LET to == ZoneType_parse(destination.rest[1])
                 source == split_off_at(destination.parts, "from")
             IN  IF to.err # "ok" THEN ParseErr(to.err, to.arg)
                 ELSE IF ~source.found
                 THEN ParseErr("move needs to specify source with from", <<>>)
                 ELSE IF source.rest = <<>>
                 THEN ParseErr("move needs source after from", <<>>)
                 ELSE IF Len(source.rest) > 1
                 THEN ParseErr("move needs a single-word source", <<>>)
                 ELSE LET from == ZoneType_parse(source.rest[1])
                          card == parse_specifier(source.parts)
                      IN  IF from.err # "ok" THEN ParseErr(from.err, from.arg)
                          ELSE IF card.err # "ok" THEN ParseErr(card.err, card.arg)
                          ELSE ParseOk([Statement("Move") EXCEPT !.card = card.card,
                                                                !.from = from.zone,
                                                                !.to = to.zone])

\* Input::parse : the first part is the verb
parse(parts) ==
    IF parts = <<>> THEN ParseOk(Statement("Nop"))
    ELSE LET verb == Head(parts)
             rest == Tail(parts)
         IN  CASE verb = "bounce"  -> parse_card_statement("Bounce", rest)
               [] verb = "discard" -> parse_card_statement("Discard", rest)
               [] verb = "draw"    -> parse_draw(rest)
               [] verb = "exile"   -> parse_exile(rest)
               [] verb = "fetch"   -> parse_text_statement("Fetch", rest)
               [] verb = "help"    ->
                      parse_bare_statement("Help", rest,
                          "help shouldn't have any words following it")
               [] verb = "inspect" -> parse_inspect(rest)
               [] verb = "load"    -> parse_text_statement("Load", rest)
               [] verb = "mill"    -> parse_mill(rest)
               [] verb = "move"    -> parse_move(rest)
               [] verb = "play"    -> parse_card_statement("Play", rest)
               [] verb = "print"   -> parse_print(rest)
               [] verb = "restart" ->
                      parse_bare_statement("Restart", rest,
                          "restart shouldn't have any words following it")
               [] verb = "sac"     -> parse_card_statement("Sacrifice", rest)
               [] verb = "shuffle" ->
                      parse_bare_statement("Shuffle", rest,
                          "shuffle shouldn't have any words following it")
               [] verb = "tuck"    -> parse_tuck(rest)
               [] verb = "tutor"   -> parse_text_statement("Tutor", rest)
               [] OTHER -> ParseErr("{} is not a known verb", Spelling[verb])

----------------------------------------------------------------------------
(* Deck lists and inputs *)

Forest == Card("Forest", {"Land"})
Opt == Card("Opt", {"Instant"})
Bear == Card("Bear", {"Creature"})

Copies(n, card) == [i \in 1 .. n |-> card]

\* The deck lists a session can load: seven cards, eight cards, and one that
\* is too short to deal a hand.
DeckFiles == <<Copies(6, Forest) \o <<Opt>>,
               Copies(7, Forest) \o <<Opt>>,
               <<Forest, Opt>>>>

\* Names a caller may pass: two that match a card up to case and surrounding
\* whitespace, and one that matches nothing.
NameInputs == {"forest", " OPT ", "Island"}

Specifiers == {CardName(n) : n \in NameInputs} \cup {Index(i) : i \in 0 .. MaxIndex}

Counts == 0 .. MaxCount

\* State::read_from_file : every card of the list, in order, in the deck
read_from_file(file) == set_zone(EmptyZones, "Deck", DeckFiles[file])

\* lib.rs new_state_from_file
new_state_from_file(file) == start_new_game(read_from_file(file))

----------------------------------------------------------------------------
(* The session *)

NoSpec == Index(0)

Cmd(op, card, from, to, n) ==
    [op |-> op, card |-> card, from |-> from, to |-> to, n |-> n]

NoCmd == Cmd("none", NoSpec, "Deck", "Deck", 0)

\* A call returns: its outcome is committed and recorded.
Return(c, o) ==
    /\ zones' = o.zones
    /\ prev' = zones
    /\ cmd' = c
    /\ result' = o.err
    /\ pc' = "executed"
    /\ UNCHANGED <<restarted, input, output>>

\* Goldfish::default()
InitDefault ==
    /\ zones = EmptyZones

\* Goldfish::new(file) : fails (no session) unless a hand could be dealt
InitNew ==
    \E file \in DOMAIN DeckFiles : \E o \in new_state_from_file(file) :
        /\ o.err = "ok"
        /\ zones = o.zones

Init ==
    /\ InitDefault \/ InitNew
    /\ pc = "prompt"
    /\ cmd = NoCmd
    /\ prev = zones
    /\ result = "none"
    /\ restarted = FALSE
    /\ input = <<>>
    /\ output = <<>>

\* The caller comes back for the next call (the loop of main.rs): the
\* record of the last call is dropped and print_state runs at the top of
\* the turn; `prev` keeps the zones as print_state found them.
NextPrompt ==
    /\ pc = "executed"
    /\ pc' = "prompt"
    /\ cmd' = NoCmd
    /\ prev' = zones
    /\ result' = "none"
    /\ restarted' = (cmd.op = "restart" /\ result = "ok")
    /\ output' = <<>>
    /\ input' = <<>>
    /\ zones' \in print_state(zones)

Bounce ==
    /\ pc = "prompt"
    /\ \E card \in Specifiers :
           Return(Cmd("bounce", card, "Battlefield", "Hand", 0), bounce(zones, card))

Discard ==
    /\ pc = "prompt"
    /\ \E card \in Specifiers :
           Return(Cmd("discard", card, "Hand", "Graveyard", 0), discard(zones, card))

Draw ==
    /\ pc = "prompt"
    /\ \E n \in Counts :
           Return(Cmd("draw", NoSpec, "Deck", "Hand", n), draw_n(zones, n))

Exile ==
    /\ pc = "prompt"
    /\ \E card \in Specifiers, from \in ZoneType :
           Return(Cmd("exile", card, from, "Exile", 0), exile(zones, card, from))

Fetch ==
    /\ pc = "prompt"
    /\ \E name \in NameInputs : \E o \in fetch(zones, name) :
           Return(Cmd("fetch", CardName(name), "Deck", "Deck", 0), o)

\* Goldfish::exec, Statement::Inspect : the lines inspect prints are kept
\* in `output` until the next prompt
Inspect ==
    /\ pc = "prompt"
    /\ \E n \in Counts :
           LET r == inspect(zones, n)
           IN  /\ zones' = r.zones
               /\ prev' = zones
               /\ cmd' = Cmd("inspect", NoSpec, "Deck", "Deck", n)
               /\ result' = "ok"
               /\ pc' = "executed"
               /\ output' = r.lines
               /\ UNCHANGED <<restarted, input>>

\* Goldfish::load : the state is replaced only when the new one was built
Load ==
    /\ pc = "prompt"
    /\ \E file \in DOMAIN DeckFiles : \E o \in new_state_from_file(file) :
           Return(Cmd("load", NoSpec, "Deck", "Deck", file),
                  IF o.err = "ok" THEN o ELSE Outcome(o.err, zones))

Mill ==
    /\ pc = "prompt"
    /\ \E n \in Counts :
           Return(Cmd("mill", NoSpec, "Deck", "Graveyard", n), mill(zones, n))

Move ==
    /\ pc = "prompt"
    /\ \E card \in Specifiers, from \in ZoneType, to \in ZoneType :
           Return(Cmd("move", card, from, to, 0), move_card(zones, card, from, to))

Play ==
    /\ pc = "prompt"
    /\ \E card \in Specifiers :
           Return(Cmd("play", card, "Hand", "Battlefield", 0), play(zones, card))

PrintZones ==
    /\ pc = "prompt"
    /\ \E target \in PrintTarget :
           Return(Cmd("print", NoSpec, IF target = "Default" THEN "Battlefield" ELSE target,
                      "Deck", 0),
                  Outcome("ok", print(zones, target)))

Restart ==
    /\ pc = "prompt"
    /\ \E o \in start_new_game(zones) :
           Return(Cmd("restart", NoSpec, "Deck", "Hand", 0), o)

Sacrifice ==
    /\ pc = "prompt"
    /\ \E card \in Specifiers :
           Return(Cmd("sacrifice", card, "Battlefield", "Graveyard", 0), sacrifice(zones, card))

Shuffle ==
    /\ pc = "prompt"
    /\ \E s \in shuffle(zones) :
           Return(Cmd("shuffle", NoSpec, "Deck", "Deck", 0), Outcome("ok", s))

Tuck ==
    /\ pc = "prompt"
    /\ \E card \in Specifiers, from \in ZoneType :
           Return(Cmd("tuck", card, from, "Deck", 0), tuck(zones, card, from))

Tutor ==
    /\ pc = "prompt"
    /\ \E name \in NameInputs : \E o \in tutor(zones, name) :
           Return(Cmd("tutor", CardName(name), "Deck", "Hand", 0), o)

Next ==
    \/ NextPrompt
    \/ Bounce
    \/ Discard
    \/ Draw
    \/ Exile
    \/ Fetch
    \/ Inspect
    \/ Load
    \/ Mill
    \/ Move
    \/ Play
    \/ PrintZones
    \/ Restart
    \/ Sacrifice
    \/ Shuffle
    \/ Tuck
    \/ Tutor

Spec == Init /\ [][Next]_vars

----------------------------------------------------------------------------
(* lib.rs : Goldfish::exec, a command line parsed and carried out *)

\* the string of the model that has these characters (a String built by
\* the parser, handed to the engine)
Str(text) == CHOOSE s \in DOMAIN Spelling : Spelling[s] = text

\* the Specifier of a statement, as the engine takes it
EngineSpecifier(card) ==
    IF card.kind = "Index" THEN Index(card.i) ELSE CardName(Str(card.name))

\* the paths at which the deck lists DeckFiles[1], DeckFiles[2], ... are
FileNames == <<"seven", "eight", "two">>

\* Faulty variant of load: the state is replaced by whatever was built, also
\* when building it failed.
load_ReplaceAlways(z, path) ==
    LET files == {f \in DOMAIN FileNames : Spelling[FileNames[f]] = path}
    IN  IF files = {} THEN {Outcome("No such file or directory", z)}
        ELSE new_state_from_file(CHOOSE f \in files : TRUE)

\* Goldfish::load : File::open fails on a path that is no file; the state
\* is replaced only when the new one was built
load(z, path) ==
    LET files == {f \in DOMAIN FileNames : Spelling[FileNames[f]] = path}
    IN  IF files = {} THEN {Outcome("No such file or directory", z)}
        ELSE {IF o.err = "ok" THEN o ELSE Outcome(o.err, z) :
                  o \in new_state_from_file(CHOOSE f \in files : TRUE)}

\* The arms of the match for the statements exec does not list (Exile,
\* Mill, Tuck): each goes to the State method of its name.
dispatch_unlisted(z, statement) ==
    CASE statement.op = "Exile" ->
             {exile(z, EngineSpecifier(statement.card), statement.from)}
      [] statement.op = "Mill" -> {mill(z, statement.n)}
      [] statement.op = "Tuck" ->
             {tuck(z, EngineSpecifier(statement.card), statement.from)}

\* Goldfish::exec, the match on the statement
dispatch(z, statement) ==
    CASE statement.op = "Nop" -> {Outcome("ok", z)}
      [] statement.op = "Help" -> {Outcome("ok", z)}
      [] statement.op = "Bounce" -> {bounce(z, EngineSpecifier(statement.card))}
      [] statement.op = "Discard" -> {discard(z, EngineSpecifier(statement.card))}
      [] statement.op = "Draw" -> {draw_n(z, statement.n)}
      [] statement.op = "Fetch" -> fetch(z, Str(statement.text))
      [] statement.op = "Inspect" -> {Outcome("ok", inspect(z, statement.n).zones)}
      [] statement.op = "Load" -> load(z, statement.text)
      [] statement.op = "Move" ->
             {move_card(z, EngineSpecifier(statement.card), statement.from, statement.to)}
      [] statement.op = "Play" -> {play(z, EngineSpecifier(statement.card))}
      [] statement.op = "Print" -> {Outcome("ok", z)}
      [] statement.op = "Restart" -> start_new_game(z)
      [] statement.op = "Sacrifice" -> {sacrifice(z, EngineSpecifier(statement.card))}
      [] statement.op = "Shuffle" -> {Outcome("ok", s) : s \in shuffle(z)}
      [] statement.op = "Tutor" -> tutor(z, Str(statement.text))
      [] OTHER -> dispatch_unlisted(z, statement)

\* Faulty variant of exec: a draw whose count does not parse draws one card.
exec_LenientCount(z, line) ==
    LET parsed == parse(Input_new(line))
    IN  IF parsed.err = "{} is not a valid numeric count for draw"
        THEN {Outcome("ok", draw_n(z, 1).zones)}
        ELSE IF parsed.err # "ok" THEN {Outcome(parsed.err, z)}
        ELSE dispatch(z, parsed.statement)

\* Goldfish::exec : `Input::new(command).parse()?` returns the error of
\* the parser before any statement is carried out
exec(z, line) ==
    LET parsed == parse(Input_new(line))
    IN  IF parsed.err # "ok" THEN {Outcome(parsed.err, z)}
        ELSE dispatch(z, parsed.statement)

\* Lines the parser turns down: unknown verb, unknown zone, invalid index,
\* invalid count, malformed clause.
BadLines ==
    {<<"bogus">>, <<"bogus", "forest">>,
     <<"move", "$1", "from", "hand", "to", "Deck">>,
     <<"move", "$1", "from", "Deck", "to", "hand">>,
     <<"exile", "$1", "from", "Deck">>,
     <<"print", "hand">>,
     <<"play", "$x">>, <<"discard", "$">>,
     <<"move", "$x", "from", "hand", "to", "deck">>,
     <<"draw", "x">>, <<"mill", "x">>, <<"inspect", "$1">>,
     <<"mill">>, <<"draw", "2", "2">>,
     <<"move", "$1", "to", "hand">>, <<"move", "$1", "from", "hand">>,
     <<"move", "$1", "from", "to", "hand">>,
     <<"play">>, <<"tuck", "$1">>, <<"", "restart", "", "now">>, <<"help", "now">>}

\* Lines the parser accepts
GoodLines ==
    {<<>>, <<"", "">>, <<"help">>, <<"draw">>, <<"draw", "", "2">>,
     <<"play", "$1">>, <<"play", "forest">>, <<"discard", "$1">>,
     <<"bounce", "forest">>, <<"sac", "$+2">>,
     <<"move", "$1", "from", "hand", "to", "deck">>,
     <<"move", "forest", "from", "graveyard", "to", "exile">>,
     <<"move", "$1", "from", "hand", "to", "battlefield">>,
     <<"exile", "$1", "from", "hand">>, <<"tuck", "forest", "from", "battlefield">>,
     <<"fetch", "forest">>, <<"tutor", "forest">>, <<"mill", "2">>,
     <<"inspect", "2">>, <<"shuffle">>, <<"restart">>, <<"print">>,
     <<"print", "graveyard">>, <<"load", "seven">>, <<"load", "eight">>,
     <<"load", "two">>, <<"load", "x">>}

ExecLines == BadLines \cup GoodLines

Exec ==
    /\ pc = "prompt"
    /\ \E line \in ExecLines : \E o \in exec(zones, line) :
           /\ zones' = o.zones
           /\ prev' = zones
           /\ cmd' = Cmd("exec", NoSpec, "Deck", "Deck", 0)
           /\ result' = o.err
           /\ pc' = "executed"
           /\ input' = line
           /\ UNCHANGED <<restarted, output>>

ExecNext ==
    \/ NextPrompt
    \/ Exec

\* ExecSpec: a session driven by command lines
ExecSpec == Init /\ [][ExecNext]_vars

----------------------------------------------------------------------------
(* ZoneSpec: Zone::remove_card applied to a zone on its own.  The zone and  *)
(* the specifier are drawn from bounded sets; the session does not move.   *)

RECURSIVE SeqsUpTo(_, _)
SeqsUpTo(S, n) ==
    IF n = 0 THEN {<<>>}
    ELSE LET shorter == SeqsUpTo(S, n - 1)
         IN  shorter \cup {Append(q, x) : q \in shorter, x \in S}

ZoneCards == {Forest, Opt, Bear}

ZoneSpecifiers ==
    {CardName(n) : n \in NameInputs} \cup {Index(i) : i \in 0 .. MaxZoneIndex}

ZoneInit ==
    /\ zones = EmptyZones
    /\ pc = "call"
    /\ cmd = NoCmd
    /\ prev = zones
    /\ result = "none"
    /\ restarted = FALSE
    /\ input \in [cards : SeqsUpTo(ZoneCards, MaxZoneLen), card : ZoneSpecifiers]
    /\ output = "none"

RemoveCard ==
    /\ pc = "call"
    /\ pc' = "returned"
    /\ output' = remove_card(input.cards, input.card)
    /\ UNCHANGED <<zones, cmd, prev, result, restarted, input>>

ZoneNext == RemoveCard

ZoneSpec == ZoneInit /\ [][ZoneNext]_vars

----------------------------------------------------------------------------
(* BattlefieldSpec: sort_battlefield and print_battlefield applied to a    *)
(* battlefield on its own.  The battlefield holds up to MaxZoneLen         *)
(* permanents in any order: a land, a creature, an artifact and a land     *)
(* that is a creature as well.                                             *)

Mox == Card("Mox", {"Artifact"})
Arbor == Card("Arbor", {"Creature", "Land"})

BattlefieldCards == {Forest, Bear, Mox, Arbor}

BattlefieldInit ==
    /\ \E n \in 0 .. MaxZoneLen : \E cards \in [1 .. n -> BattlefieldCards] :
           zones = set_zone(EmptyZones, "Battlefield", cards)
    /\ pc = "call"
    /\ cmd = NoCmd
    /\ prev = zones
    /\ result = "none"
    /\ restarted = FALSE
    /\ input = <<>>
    /\ output = <<>>

SortBattlefield ==
    /\ pc = "call"
    /\ pc' = "returned"
    /\ zones' = sort_battlefield(zones)
    /\ prev' = zones
    /\ cmd' = Cmd("sort", NoSpec, "Battlefield", "Battlefield", 0)
    /\ UNCHANGED <<result, restarted, input, output>>

PrintBattlefield ==
    /\ pc = "call"
    /\ pc' = "returned"
    /\ LET r == print_battlefield(zones)
       IN  /\ zones' = r.zones
           /\ output' = r.lines
    /\ prev' = zones
    /\ cmd' = Cmd("print", NoSpec, "Battlefield", "Battlefield", 0)
    /\ UNCHANGED <<result, restarted, input>>

BattlefieldNext ==
    \/ SortBattlefield
    \/ PrintBattlefield

BattlefieldSpec == BattlefieldInit /\ [][BattlefieldNext]_vars

----------------------------------------------------------------------------
(* ParseSpec: Input::new(line).parse() applied to a line on its own.  The  *)
(* lines are a verb followed by up to MaxArgs fields from the words that   *)
(* matter to that verb, the empty field among them.                        *)

ParseVerbs ==
    {"bounce", "discard", "draw", "exile", "fetch", "help", "inspect", "load",
     "mill", "move", "play", "print", "restart", "sac", "shuffle", "tuck", "tutor",
     "bogus", ""}

ArgWords(verb) ==
    CASE verb = "move" -> {"", "to", "from", "hand", "deck", "Deck", "$1", "forest"}
      [] verb \in {"exile", "tuck"} -> {"", "from", "hand", "Deck", "$1", "$x"}
      [] verb = "bounce" -> {"", "$", "$1", "$x", "$+2", "$-1",
                             "$18446744073709551616", "forest", "2"}
      [] verb \in {"discard", "play", "sac"} -> {"", "$1", "$x", "$+2", "forest"}
      [] verb \in {"draw", "inspect", "mill"} ->
             {"", "2", "+2", "x", "-1", "18446744073709551616"}
      [] verb = "print" -> {"", "exile", "graveyard", "hand"}
      [] verb \in {"fetch", "load", "tutor"} -> {"", "forest", "$1"}
      [] verb \in {"help", "restart", "shuffle"} -> {"", "now"}
      [] verb = "bogus" -> {"", "forest"}
      [] verb = "" -> {""}

ParseInit ==
    /\ zones = EmptyZones
    /\ pc = "call"
    /\ cmd = NoCmd
    /\ prev = zones
    /\ result = "none"
    /\ restarted = FALSE
    /\ \/ input = <<>>
       \/ \E verb \in ParseVerbs, n \in 0 .. MaxArgs :
              \E args \in [1 .. n -> ArgWords(verb)] : input = <<verb>> \o args
    /\ output = "none"

ParseLine ==
    /\ pc = "call"
    /\ pc' = "returned"
    /\ output' = parse(Input_new(input))
    /\ UNCHANGED <<zones, cmd, prev, result, restarted, input>>

ParseNext == ParseLine

ParseSpec == ParseInit /\ [][ParseNext]_vars

----------------------------------------------------------------------------
(* RenderSpec: a session on a deck list with a land, a creature and an     *)
(* instant, in which cards are played from the opening hand and the game   *)
(* state is printed.  The battlefield gets its cards in the order they    *)
(* were played.                                                            *)

RenderDeck == <<Forest, Bear, Opt, Forest, Forest, Forest, Forest>>

RenderInit ==
    /\ \E o \in start_new_game(set_zone(EmptyZones, "Deck", RenderDeck)) :
           /\ o.err = "ok"
           /\ zones = o.zones
    /\ pc = "prompt"
    /\ cmd = NoCmd
    /\ prev = zones
    /\ result = "none"
    /\ restarted = FALSE
    /\ input = <<>>
    /\ output = <<>>

RenderNext ==
    \/ NextPrompt
    \/ Play
    \/ PrintZones

RenderSpec == RenderInit /\ [][RenderNext]_vars

----------------------------------------------------------------------------
(* DrawSpec: a run of up to MaxRun commands, each of them a single draw,   *)
(* an inspect or a print, from a state with up to MaxZoneLen cards of      *)
(* three kinds in the deck, in any order; print_state runs between the     *)
(* commands, as in the loop of main.rs.  `prev` keeps the zones the run    *)
(* started from and `input` the commands of the run so far; `cmd`,         *)
(* `result` and `output` are those of the last command.                    *)

RunCards == {Forest, Bear, Opt}

RunHands == {<<>>, <<Bear>>}

RunBattlefields == {<<>>, <<Forest, Bear>>}

DrawInit ==
    /\ \E n \in 0 .. MaxZoneLen : \E deck \in [1 .. n -> RunCards] :
           \E hand \in RunHands, battlefield \in RunBattlefields :
               zones = set_zone(set_zone(set_zone(EmptyZones, "Deck", deck),
                                         "Hand", hand),
                                "Battlefield", battlefield)
    /\ pc = "prompt"
    /\ cmd = NoCmd
    /\ prev = zones
    /\ result = "none"
    /\ restarted = FALSE
    /\ input = <<>>
    /\ output = <<>>

\* the command `draw` : Statement::Draw(1)
RunDraw ==
    /\ pc = "prompt"
    /\ Len(input) < MaxRun
    /\ LET o == draw_n(zones, 1)
       IN  /\ zones' = o.zones
           /\ result' = o.err
    /\ cmd' = Cmd("draw", NoSpec, "Deck", "Hand", 1)
    /\ input' = Append(input, "draw")
    /\ output' = <<>>
    /\ pc' = "executed"
    /\ UNCHANGED <<prev, restarted>>

\* the command `inspect n`
RunInspect ==
    /\ pc = "prompt"
    /\ Len(input) < MaxRun
    /\ \E n \in Counts :
           LET r == inspect(zones, n)
           IN  /\ zones' = r.zones
               /\ output' = r.lines
               /\ cmd' = Cmd("inspect", NoSpec, "Deck", "Deck", n)
    /\ result' = "ok"
    /\ input' = Append(input, "inspect")
    /\ pc' = "executed"
    /\ UNCHANGED <<prev, restarted>>

\* the command `print` : the arm of exec does nothing
RunPrint ==
    /\ pc = "prompt"
    /\ Len(input) < MaxRun
    /\ cmd' = Cmd("print", NoSpec, "Battlefield", "Deck", 0)
    /\ result' = "ok"
    /\ input' = Append(input, "print")
    /\ output' = <<>>
    /\ pc' = "executed"
    /\ UNCHANGED <<zones, prev, restarted>>

\* the top of the next turn of the loop: print_state
RunPrompt ==
    /\ pc = "executed"
    /\ pc' = "prompt"
    /\ zones' \in print_state(zones)
    /\ UNCHANGED <<cmd, prev, result, restarted, input, output>>

DrawNext ==
    \/ RunDraw
    \/ RunInspect
    \/ RunPrint
    \/ RunPrompt

DrawSpec == DrawInit /\ [][DrawNext]_vars

----------------------------------------------------------------------------
(* Properties.  What the properties say is written without the operators   *)
(* of the engine: the card a specifier selects, a sequence without one of  *)
(* its elements, the number of cards.                                      *)

Executed(ops) == pc = "executed" /\ cmd.op \in ops

RECURSIVE SumLen(_, _)
SumLen(z, S) ==
    IF S = {} THEN 0
    ELSE LET t == CHOOSE x \in S : TRUE
         IN  Len(z[t]) + SumLen(z, S \ {t})

Total(z) == SumLen(z, ZoneType)

SameName(a, b) == TrimmedLowercase[a] = TrimmedLowercase[b]

Permanent(card) ==
    card.types \cap {"Artifact", "Creature", "Enchantment", "Land", "Planeswalker"} # {}

\* position (1-based) of the card the specifier selects, 0 if none
SelectedPos(cards, spec) ==
    IF spec.kind = "Index"
    THEN IF spec.i < Len(cards) THEN spec.i + 1 ELSE 0
    ELSE LET hits == {k \in DOMAIN cards : SameName(cards[k].name, spec.name)}
         IN  IF hits = {} THEN 0
             ELSE CHOOSE k \in hits : \A h \in hits : k <= h

\* the sequence without its element at position p
Without(cards, p) ==
    [k \in 1 .. Len(cards) - 1 |-> IF k < p THEN cards[k] ELSE cards[k + 1]]

Unresolved == SelectedPos(prev[cmd.from], cmd.card) = 0

SelfMove == cmd.from = cmd.to /\ cmd.to # "Deck"

MoveCardOps == {"move", "bounce", "discard", "exile", "sacrifice", "tuck"}

RemovalOps == MoveCardOps \cup {"play", "fetch", "tutor"}

\* number of occurrences of a card in a sequence
Count(cards, c) == Cardinality({k \in DOMAIN cards : cards[k] = c})

\* the two sequences hold the same cards, each as often, in some order
Reordering(a, b) ==
    /\ Len(a) = Len(b)
    /\ \A k \in DOMAIN a : Count(a, a[k]) = Count(b, a[k])

\* C1: every command other than load (and restart) leaves the total number
\* of cards over the five zones as it was, whether it succeeds or fails.
C1_CardCountConserved ==
    Executed({"move", "draw", "mill", "play", "fetch", "tutor", "discard",
              "sacrifice", "bounce", "exile", "tuck", "shuffle", "inspect", "print"})
        => Total(zones) = Total(prev)

\* C2: a move to the battlefield of a card that is not a permanent fails and
\* leaves every zone as it was; the same move of a permanent succeeds and
\* puts the card at the end of the battlefield.
C2_BattlefieldMoveChecksFirst ==
    Executed({"move"}) /\ cmd.to = "Battlefield" /\ cmd.from # "Battlefield"
    /\ ~Unresolved
        => LET p == SelectedPos(prev[cmd.from], cmd.card)
               c == prev[cmd.from][p]
           IN  IF Permanent(c)
               THEN /\ result = "ok"
                    /\ zones = [prev EXCEPT ![cmd.from] = Without(prev[cmd.from], p),
                                            !["Battlefield"] = Append(prev["Battlefield"], c)]
               ELSE /\ result = "not a permanent"
                    /\ zones = prev

\* C3: a command that takes a card out of a zone fails with "not found!"
\* exactly when its specifier selects no card of the source zone, and then
\* every zone keeps its cards in their order (the deck is not shuffled).
C3_NotFoundChangesNothing ==
    Executed(RemovalOps)
        => /\ (Unresolved /\ ~SelfMove => result = "not found!")
           /\ (result = "not found!" => Unresolved /\ zones = prev)

C3_Witness ==
    /\ Executed({"fetch"})
    /\ result = "not found!"
    /\ Len(prev["Deck"]) >= 2
    /\ prev["Deck"][1] # prev["Deck"][2]

\* C4: a restart that fails (fewer than seven cards in all) leaves every zone
\* as it was.
C4_FailedRestartChangesNothing ==
    Executed({"restart"}) /\ result # "ok" => zones = prev

\* C5: a move of a zone other than the deck to itself succeeds and changes
\* nothing, whatever the specifier, also one that selects no card.
C5_SelfMoveIsNoOp ==
    Executed({"move", "exile"}) /\ SelfMove => result = "ok" /\ zones = prev

C5_Witness ==
    /\ Executed({"move"})
    /\ SelfMove
    /\ Unresolved
    /\ prev[cmd.from] # <<>>
    /\ result = "ok"

\* C6: after a successful move from A to another zone B the selected card is
\* the last of B, A is A without that one card, the rest of B and every
\* other zone are as before.
C6_MoveAppendsToDestination ==
    Executed(MoveCardOps) /\ cmd.from # cmd.to /\ result = "ok"
        => LET p == SelectedPos(prev[cmd.from], cmd.card)
           IN  /\ p > 0
               /\ zones = [prev EXCEPT ![cmd.from] = Without(prev[cmd.from], p),
                                       ![cmd.to] = Append(prev[cmd.to], prev[cmd.from][p])]

C6_Witness ==
    /\ Executed({"move"})
    /\ cmd.from # cmd.to
    /\ result = "ok"
    /\ prev[cmd.to] # <<>>
    /\ LET p == SelectedPos(prev[cmd.from], cmd.card)
       IN  /\ 1 < p
           /\ p < Len(prev[cmd.from])
           /\ prev[cmd.from][p] # prev[cmd.from][p - 1]

\* C7: draw_n(n) on a deck of d cards moves the top min(n, d) cards to the
\* end of the hand in deck order; it fails, keeping those draws, when d < n
\* and succeeds otherwise.
C7_DrawKeepsPartialProgress ==
    Executed({"draw"})
        => LET deck == prev["Deck"]
               d == Len(deck)
               k == IF d < cmd.n THEN d ELSE cmd.n
           IN  /\ result = (IF d < cmd.n THEN "not found!" ELSE "ok")
               /\ zones = [prev EXCEPT !["Hand"] = prev["Hand"] \o SubSeq(deck, 1, k),
                                       !["Deck"] = SubSeq(deck, k + 1, d)]

C7_Witness ==
    /\ Executed({"draw"})
    /\ Len(prev["Deck"]) >= 1
    /\ Len(prev["Deck"]) < cmd.n
    /\ result # "ok"
    /\ Len(zones["Hand"]) = Len(prev["Hand"]) + Len(prev["Deck"])

\* C8: Index(i) on a zone of L cards fails with "not found!" and leaves the
\* zone when i >= L; when i < L it returns the card at position i (from 0)
\* and leaves the other cards in their order.
C8_RemoveByIndex ==
    pc = "returned" /\ input.card.kind = "Index"
        => LET cards == input.cards
               i == input.card.i
           IN  IF i >= Len(cards)
               THEN output.err = "not found!" /\ output.cards = cards
               ELSE /\ output.err = "ok"
                    /\ output.card = cards[i + 1]
                    /\ output.cards = Without(cards, i + 1)

C8_Witness ==
    /\ pc = "returned"
    /\ input.card = Index(2)
    /\ Len(input.cards) = 3
    /\ input.cards[1] # input.cards[3]
    /\ output.err = "ok"
    /\ output.card = input.cards[3]

\* C9: CardName(name) removes the first card, from position 0 on, whose
\* trimmed lowercase name is the trimmed lowercase `name`; later cards of
\* that name stay; it fails with "not found!" when there is none.
C9_RemoveByName ==
    pc = "returned" /\ input.card.kind = "CardName"
        => LET cards == input.cards
               hits == {k \in DOMAIN cards : SameName(cards[k].name, input.card.name)}
           IN  IF hits = {}
               THEN output.err = "not found!" /\ output.cards = cards
               ELSE LET p == CHOOSE k \in hits : \A h \in hits : k <= h
                    IN  /\ output.err = "ok"
                        /\ output.card = cards[p]
                        /\ output.cards = Without(cards, p)

C9_Witness ==
    /\ pc = "returned"
    /\ input.card = CardName(" OPT ")
    /\ input.cards = <<Forest, Opt, Opt>>
    /\ output.err = "ok"
    /\ output.cards = <<Forest, Opt>>

\* C10: a restart in a state of at least seven cards, also right after
\* another restart, leaves seven cards in the hand, none on the battlefield,
\* in the graveyard or in exile, and all the others in the deck.
C10_RestartDealsSeven ==
    Executed({"restart"}) /\ Total(prev) >= 7
        => /\ result = "ok"
           /\ Len(zones["Hand"]) = 7
           /\ zones["Battlefield"] = <<>>
           /\ zones["Graveyard"] = <<>>
           /\ zones["Exile"] = <<>>
           /\ Len(zones["Deck"]) = Total(prev) - 7

C10_Witness ==
    /\ Executed({"restart"})
    /\ restarted
    /\ result = "ok"
    /\ Len(zones["Hand"]) = 7
    /\ Len(zones["Deck"]) = 1

\* C11: a restart fails exactly when there are fewer than seven cards in all
\* five zones together, and its failure is the "not found!" of the draw
\* that found the deck empty.
C11_RestartFailsBelowSeven ==
    Executed({"restart"})
        => /\ (result # "ok" <=> Total(prev) < 7)
           /\ (result # "ok" => result = "not found!" /\ zones["Deck"] = <<>>)

C11_Witness ==
    /\ Executed({"restart"})
    /\ Total(prev) > 0
    /\ Total(prev) < 7
    /\ result = "not found!"

\* C12: a successful play takes the one selected card out of the hand and
\* puts it at the end of the battlefield when it is a permanent, at the end
\* of the graveyard when it is not; the rest of the hand keeps its order
\* and every other zone is as before.
C12_PlayPlacesByPermanence ==
    Executed({"play"}) /\ result = "ok"
        => LET p == SelectedPos(prev["Hand"], cmd.card)
           IN  /\ p > 0
               /\ LET c == prev["Hand"][p]
                      dest == IF Permanent(c) THEN "Battlefield" ELSE "Graveyard"
                  IN  zones = [prev EXCEPT !["Hand"] = Without(prev["Hand"], p),
                                          ![dest] = Append(prev[dest], c)]

C12_Witness ==
    /\ Executed({"play"})
    /\ result = "ok"
    /\ prev["Graveyard"] # <<>>
    /\ prev["Battlefield"] # <<>>
    /\ LET p == SelectedPos(prev["Hand"], cmd.card)
       IN  /\ p > 1
           /\ ~Permanent(prev["Hand"][p])
           /\ zones["Graveyard"] = Append(prev["Graveyard"], prev["Hand"][p])

\* C13: a successful fetch takes the first card of that name out of the
\* deck and puts it at the end of the battlefield when it is a permanent, at
\* the end of the graveyard when it is not; the deck afterwards is a
\* reordering of the deck before without that card; hand, exile and the
\* other of battlefield and graveyard are as before.
C13_FetchPlacesAndShuffles ==
    Executed({"fetch"}) /\ result = "ok"
        => LET p == SelectedPos(prev["Deck"], cmd.card)
           IN  /\ p > 0
               /\ LET c == prev["Deck"][p]
                      dest == IF Permanent(c) THEN "Battlefield" ELSE "Graveyard"
                  IN  /\ SameName(c.name, cmd.card.name)
                      /\ Reordering(zones["Deck"], Without(prev["Deck"], p))
                      /\ zones[dest] = Append(prev[dest], c)
                      /\ \A t \in ZoneType \ {"Deck", dest} : zones[t] = prev[t]

C13_Witness ==
    /\ Executed({"fetch"})
    /\ result = "ok"
    /\ LET p == SelectedPos(prev["Deck"], cmd.card)
       IN  /\ p > 1
           /\ Permanent(prev["Deck"][p])
           /\ prev["Battlefield"] # <<>>
           /\ zones["Deck"] # Without(prev["Deck"], p)

\* C14: a successful tutor takes the first card of that name out of the
\* deck and puts it at the end of the hand, whose other cards keep their
\* order; the deck afterwards is a reordering of the deck before without
\* that card; battlefield, graveyard and exile are as before.
C14_TutorToHandAndShuffles ==
    Executed({"tutor"}) /\ result = "ok"
        => LET p == SelectedPos(prev["Deck"], cmd.card)
           IN  /\ p > 0
               /\ SameName(prev["Deck"][p].name, cmd.card.name)
               /\ zones["Hand"] = Append(prev["Hand"], prev["Deck"][p])
               /\ Reordering(zones["Deck"], Without(prev["Deck"], p))
               /\ \A t \in {"Battlefield", "Graveyard", "Exile"} : zones[t] = prev[t]

C14_Witness ==
    /\ Executed({"tutor"})
    /\ result = "ok"
    /\ prev["Hand"] # <<>>
    /\ LET p == SelectedPos(prev["Deck"], cmd.card)
       IN  /\ p > 1
           /\ zones["Deck"] # Without(prev["Deck"], p)

\* C15: mill(n) on a deck of d cards moves the top min(n, d) cards, in deck
\* order, to the end of the graveyard; hand, battlefield and exile are as
\* before; it succeeds when n <= d and, when n > d, fails with the d cards
\* milled and not put back.
C15_MillKeepsPartialProgress ==
    Executed({"mill"})
        => LET deck == prev["Deck"]
               d == Len(deck)
               k == IF d < cmd.n THEN d ELSE cmd.n
           IN  /\ result = (IF d < cmd.n THEN "not found!" ELSE "ok")
               /\ zones = [prev EXCEPT
                              !["Graveyard"] = prev["Graveyard"] \o SubSeq(deck, 1, k),
                              !["Deck"] = SubSeq(deck, k + 1, d)]

C15_Witness ==
    /\ Executed({"mill"})
    /\ Len(prev["Deck"]) >= 1
    /\ Len(prev["Deck"]) < cmd.n
    /\ prev["Graveyard"] # <<>>
    /\ prev["Hand"] # <<>>
    /\ result # "ok"
    /\ zones["Deck"] = <<>>
    /\ Len(zones["Graveyard"]) = Len(prev["Graveyard"]) + Len(prev["Deck"])

\* C16: shuffle succeeds and changes nothing but the order of the deck: the
\* deck afterwards holds the cards of the deck before, each as often, and
\* battlefield, exile, graveyard and hand keep their cards and their order.
C16_ShuffleOnlyReordersDeck ==
    Executed({"shuffle"})
        => /\ result = "ok"
           /\ Reordering(zones["Deck"], prev["Deck"])
           /\ \A t \in ZoneType \ {"Deck"} : zones[t] = prev[t]

C16_Witness ==
    /\ Executed({"shuffle"})
    /\ zones["Deck"] # prev["Deck"]
    /\ prev["Hand"] # <<>>
    /\ prev["Graveyard"] # <<>>

\* C17: inspect(n) succeeds and, for every n and every state, leaves every
\* zone, the deck too, with the cards it had in the order they had.
C17_InspectReadsOnly ==
    Executed({"inspect"}) => result = "ok" /\ zones = prev

C17_Witness ==
    /\ Executed({"inspect"})
    /\ cmd.n = 2
    /\ Len(prev["Deck"]) >= 3
    /\ prev["Deck"][1] # prev["Deck"][2]
    /\ Len(output) = 4
    /\ output[2] = InspectLine(0, prev["Deck"][1])
    /\ zones = prev

\* C18: printing the game state, by the command `print` and by
\* print_state at the top of a turn, only reads: every zone, the
\* battlefield too, has afterwards the cards it had in the order they had,
\* so an index selects the same battlefield card before and after.
C18_RenderReadsOnly ==
    (Executed({"print"}) /\ cmd.from = "Battlefield") \/ pc = "prompt"
        => /\ zones = prev
           /\ \A i \in 0 .. MaxIndex :
                  LET p == SelectedPos(prev["Battlefield"], Index(i))
                  IN  /\ SelectedPos(zones["Battlefield"], Index(i)) = p
                      /\ p > 0 => zones["Battlefield"][p] = prev["Battlefield"][p]

\* the words of a line: its fields that are not empty
Words(line) == SelectSeq(line, LAMBDA f : f # "")

ZoneWords == {"battlefield", "deck", "exile", "graveyard", "hand"}

\* C19: a `move` line without the word `to` is rejected with the message
\* that names `to`; a `move` line that ends in `to <zone>` and has no word
\* `from` is rejected with the message that names `from`; neither gives a
\* statement.
C19_MoveNamesMissingKeyword ==
    pc = "returned" /\ Words(input) # <<>> /\ Head(Words(input)) = "move"
        => LET args == Tail(Words(input))
               n == Len(args)
               noTo == \A k \in DOMAIN args : args[k] # "to"
               noFrom == \A k \in DOMAIN args : args[k] # "from"
               toZone == n >= 2 /\ args[n - 1] = "to" /\ args[n] \in ZoneWords
           IN  /\ noTo => /\ output.err = "move needs to specify destination with to"
                          /\ output.statement = NoStatement
               /\ toZone /\ noFrom
                      => /\ output.err = "move needs to specify source with from"
                         /\ output.statement = NoStatement

C19_Witness ==
    /\ pc = "returned"
    /\ input = <<"move", "$1", "to", "hand">>
    /\ output.err = "move needs to specify source with from"

\* the messages of the parser (parse.rs and the parse functions of
\* common.rs)
ParseMessages ==
    {"{} is not a known verb", "{} is not a known location",
     "missing card specifier", "{} is not numeric after the $",
     "draw needs a single-word count", "{} is not a valid numeric count for draw",
     "inspect needs a single-word count",
     "{} is not a valid numeric count for inspect",
     "mill needs a single word count", "{} is not a valid numeric count for mill",
     "exile needs to specify source with from", "exile needs source after from",
     "exile needs a single-word source",
     "tuck needs to specify source with from", "tuck needs source after from",
     "tuck needs a single-word source",
     "move needs to specify destination with to", "move needs destination after to",
     "move needs a single-word destination",
     "move needs to specify source with from", "move needs source after from",
     "move needs a single-word source",
     "help shouldn't have any words following it",
     "restart shouldn't have any words following it",
     "shuffle shouldn't have any words following it",
     "print either needs no target or a one-word target"}

\* C20: a line the parser turns down (unknown verb, unknown zone, invalid
\* index, invalid count, malformed clause) makes exec return the parser's
\* error; whenever exec returns a parser's error every zone is as it was
\* before the call, and the session goes on to the next prompt.
C20_ParseErrorLeavesState ==
    pc = "executed" /\ cmd.op = "exec"
        => /\ (input \in BadLines => result \in ParseMessages)
           /\ (result \in ParseMessages => zones = prev /\ ENABLED NextPrompt)

C20_Witness ==
    /\ pc = "executed"
    /\ cmd.op = "exec"
    /\ input = <<"draw", "x">>
    /\ result = "{} is not a valid numeric count for draw"
    /\ Len(prev["Deck"]) >= 1
    /\ prev["Graveyard"] # <<>>
    /\ zones = prev

\* C21: a load of a deck list of seven or more cards succeeds and leaves a
\* fresh game of that list: seven cards in the hand, the rest in the deck,
\* nothing on the battlefield, in the graveyard or in exile, hand and deck
\* together holding the cards of the list, each as often; a load that fails
\* (no file at the path, or a list of fewer than seven cards) leaves every
\* zone as it was.
C21_LoadReplacesOrKeeps ==
    pc = "executed" /\ cmd.op = "exec"
    /\ Words(input) # <<>> /\ Head(Words(input)) = "load"
        => LET path == Tail(Words(input))
               file == IF path = <<"seven">> THEN 1
                       ELSE IF path = <<"eight">> THEN 2
                       ELSE IF path = <<"two">> THEN 3 ELSE 0
           IN  IF file # 0 /\ Len(DeckFiles[file]) >= 7
               THEN /\ result = "ok"
                    /\ Len(zones["Hand"]) = 7
                    /\ zones["Battlefield"] = <<>>
                    /\ zones["Graveyard"] = <<>>
                    /\ zones["Exile"] = <<>>
                    /\ Reordering(zones["Hand"] \o zones["Deck"], DeckFiles[file])
               ELSE /\ result # "ok"
                    /\ zones = prev

C21_Witness ==
    /\ pc = "executed"
    /\ cmd.op = "exec"
    /\ input = <<"load", "two">>
    /\ result = "not found!"
    /\ prev["Graveyard"] # <<>>
    /\ prev["Battlefield"] # <<>>
    /\ zones = prev

\* occurrences of a card over the five zones
CountAll(z, c) ==
    Count(z["Battlefield"], c) + Count(z["Deck"], c) + Count(z["Exile"], c)
    + Count(z["Graveyard"], c) + Count(z["Hand"], c)

\* C22: no card is in two places at once.  The one Opt of a deck list is
\* never in two zones and never twice in a zone; and no command makes more
\* copies of a card than there were: a load leaves as many as its list
\* has, every other command at most as many as before.
C22_NoCardDuplicated ==
    /\ CountAll(zones, Opt) <= 1
    /\ pc = "executed" /\ cmd.op # "load"
           => \A c \in {Forest, Opt} : CountAll(zones, c) <= CountAll(prev, c)
    /\ Executed({"load"}) /\ result = "ok"
           => \A c \in {Forest, Opt} : CountAll(zones, c) = Count(DeckFiles[cmd.n], c)

C22_Witness ==
    /\ Executed({"move"})
    /\ result = "ok"
    /\ cmd.from # cmd.to
    /\ Count(prev[cmd.from], Opt) = 1
    /\ Count(zones[cmd.from], Opt) = 0
    /\ Count(zones[cmd.to], Opt) = 1
    /\ CountAll(zones, Opt) = 1
    /\ CountAll(zones, Forest) = 7

\* C23: a move from the deck to the deck (a tuck from the deck is one) with
\* a specifier that selects a card takes that card from its place and puts
\* it at the end of the deck, the other cards keeping their order and every
\* other zone staying; with a specifier that selects nothing it fails with
\* "not found!" and nothing changes.
C23_DeckToDeckGoesToBottom ==
    Executed({"move", "tuck"}) /\ cmd.from = "Deck" /\ cmd.to = "Deck"
        => LET deck == prev["Deck"]
               p == SelectedPos(deck, cmd.card)
           IN  IF p = 0
               THEN result = "not found!" /\ zones = prev
               ELSE /\ result = "ok"
                    /\ zones = [prev EXCEPT !["Deck"] = Append(Without(deck, p), deck[p])]

C23_Witness ==
    /\ Executed({"tuck"})
    /\ cmd.from = "Deck"
    /\ result = "ok"
    /\ Len(prev["Deck"]) >= 3
    /\ SelectedPos(prev["Deck"], cmd.card) = 2
    /\ zones["Deck"] # prev["Deck"]
    /\ Len(zones["Deck"]) = Len(prev["Deck"])

\* C24: in every reachable state every card on the battlefield is a
\* permanent: none has only the types Instant and Sorcery.
C24_BattlefieldHoldsPermanents ==
    \A k \in DOMAIN zones["Battlefield"] :
        /\ Permanent(zones["Battlefield"][k])
        /\ ~(zones["Battlefield"][k].types \subseteq {"Instant", "Sorcery"})

C24_Witness ==
    /\ Executed({"move"})
    /\ cmd.to = "Battlefield"
    /\ cmd.from = "Hand"
    /\ SelectedPos(prev["Hand"], cmd.card) > 0
    /\ ~Permanent(prev["Hand"][SelectedPos(prev["Hand"], cmd.card)])
    /\ result = "not a permanent"
    /\ zones["Battlefield"] # <<>>
    /\ zones["Battlefield"] = prev["Battlefield"]

Creature(card) == "Creature" \in card.types
Land(card) == "Land" \in card.types

\* the cards of a sequence that satisfy a condition, in their order
Those(cards, cond(_)) == SelectSeq(cards, cond)

\* C25, as stated: the sorted battlefield holds the cards it held; every
\* creature comes before every other permanent that is not a land, which
\* comes before every land; cards of one kind keep their order.
C25_SortedByKindAsStated ==
    pc = "returned" /\ cmd.op = "sort"
        => LET before == prev["Battlefield"]
               after == zones["Battlefield"]
               other(c) == ~Creature(c) /\ ~Land(c)
           IN  /\ Reordering(after, before)
               /\ \A i, j \in DOMAIN after :
                      /\ Creature(after[i]) /\ other(after[j]) => i < j
                      /\ other(after[i]) /\ Land(after[j]) => i < j
               /\ Those(after, Creature) = Those(before, Creature)
               /\ Those(after, other) = Those(before, other)
               /\ Those(after, Land) = Those(before, Land)

\* C25, amended: a land counts as a land also when it is a creature.  The
\* sorted battlefield holds the cards it held; every creature that is not
\* a land comes before every other permanent that is not a land, which
\* comes before every land; cards of one of these three kinds keep their
\* order.
C25_SortedByKey ==
    pc = "returned" /\ cmd.op = "sort"
        => LET before == prev["Battlefield"]
               after == zones["Battlefield"]
               creature(c) == Creature(c) /\ ~Land(c)
               other(c) == ~Creature(c) /\ ~Land(c)
           IN  /\ Reordering(after, before)
               /\ \A i, j \in DOMAIN after :
                      /\ creature(after[i]) /\ other(after[j]) => i < j
                      /\ other(after[i]) /\ Land(after[j]) => i < j
                      /\ creature(after[i]) /\ Land(after[j]) => i < j
               /\ Those(after, creature) = Those(before, creature)
               /\ Those(after, other) = Those(before, other)
               /\ Those(after, Land) = Those(before, Land)

C25_Witness ==
    /\ pc = "returned"
    /\ cmd.op = "sort"
    /\ prev["Battlefield"] = <<Arbor, Forest, Bear>>
    /\ zones["Battlefield"] = <<Bear, Arbor, Forest>>

RECURSIVE Entries(_)
\* the card entries of printed lines, in printing order
Entries(lines) ==
    IF lines = <<>> THEN <<>> ELSE Head(lines).entries \o Entries(Tail(lines))

BandRank(label) ==
    CASE label = "creatures" -> 1
      [] label = "permanents" -> 2
      [] label = "lands" -> 3
      [] OTHER -> 0

\* C26: a default render prints the bands creatures, permanents, lands in
\* that order, each at most once and none without a card, followed by an
\* empty line; every card of the battlefield is printed exactly once, in
\* the band of its kind, and the index printed with it is its position in
\* the battlefield as the render leaves it.
C26_RenderIndexesBattlefield ==
    pc = "returned" /\ cmd.op = "print"
        => LET cards == zones["Battlefield"]
               bands == SubSeq(output, 1, Len(output) - 1)
               printed == Entries(bands)
           IN  /\ output # <<>>
               /\ output[Len(output)] = BlankLine
               /\ \A b \in DOMAIN bands :
                      /\ BandRank(bands[b].label) \in 1 .. 3
                      /\ bands[b].entries # <<>>
                      /\ \A a \in 1 .. b - 1 :
                             BandRank(bands[a].label) < BandRank(bands[b].label)
                      /\ \A e \in DOMAIN bands[b].entries :
                             LET card == cards[bands[b].entries[e].i + 1]
                             IN  BandRank(bands[b].label) =
                                     IF Land(card) THEN 3
                                     ELSE IF Creature(card) THEN 1 ELSE 2
               /\ Len(printed) = Len(cards)
               /\ \A k \in DOMAIN cards :
                      /\ printed[k].i = k - 1
                      /\ printed[k].name = cards[k].name
                      /\ remove_card(cards, Index(printed[k].i)).card = cards[k]

C26_Witness ==
    /\ pc = "returned"
    /\ cmd.op = "print"
    /\ prev["Battlefield"] = <<Forest, Mox, Bear>>
    /\ output = <<BandLine("creatures", <<[i |-> 0, name |-> "Bear"]>>),
                  BandLine("permanents", <<[i |-> 1, name |-> "Mox"]>>),
                  BandLine("lands", <<[i |-> 2, name |-> "Forest"]>>),
                  BlankLine>>

\* the zone a zone word names
ZoneOf(word) ==
    CASE word = "battlefield" -> "Battlefield"
      [] word = "deck" -> "Deck"
      [] word = "exile" -> "Exile"
      [] word = "graveyard" -> "Graveyard"
      [] word = "hand" -> "Hand"

\* the last position before `bound` at which the words hold `word`, 0 if
\* there is none
LastBefore(words, word, bound) ==
    LET hits == {k \in 1 .. bound - 1 : words[k] = word}
    IN  IF hits = {} THEN 0 ELSE CHOOSE h \in hits : \A g \in hits : g <= h

\* C27: a line `move T1..Tk from <zoneA> to <zoneB>` with k >= 1 and zone
\* names parses as the specifier sub-grammar applied to all of T1..Tk,
\* the words `to` and `from` among them included: a name gives
\* Move{card: the name T1..Tk joined by spaces, from: zoneA, to: zoneB},
\* `$1` gives Move with the index 1, and words beginning with `$` that
\* are not an index give the invalid-index error.  A `move` line in which
\* the last `to` is not followed by exactly one word, or in which the
\* last `from` before that `to` is not followed by exactly one word up to
\* the `to`, is rejected.
C27_MoveSplitsAtRightmost ==
    pc = "returned" /\ Words(input) # <<>> /\ Head(Words(input)) = "move"
        => LET args == Tail(Words(input))
               n == Len(args)
               t == LastBefore(args, "to", n + 1)
               f == LastBefore(args, "from", t)
               T == SubSeq(args, 1, n - 4)
               wellFormed == /\ n >= 5
                             /\ args[n - 3] = "from" /\ args[n - 2] \in ZoneWords
                             /\ args[n - 1] = "to" /\ args[n] \in ZoneWords
               moved(card) == /\ output.err = "ok"
                              /\ output.statement =
                                     [Statement("Move") EXCEPT
                                         !.card = card,
                                         !.from = ZoneOf(args[n - 2]),
                                         !.to = ZoneOf(args[n])]
           IN  /\ wellFormed
                      => IF T = <<"$1">> THEN moved(ParsedIndex(1))
                         ELSE IF Spelling[T[1]][1] = "$"
                         THEN /\ output.err = "{} is not numeric after the $"
                              /\ output.statement = NoStatement
                         ELSE moved(ParsedCardName(join(T)))
               /\ t > 0 /\ n - t # 1
                      => /\ output.err \in {"move needs destination after to",
                                             "move needs a single-word destination"}
                         /\ output.statement = NoStatement
               /\ t > 0 /\ n - t = 1 /\ f > 0 /\ t - f # 2
                      => /\ output.err # "ok"
                         /\ output.statement = NoStatement

C27_Witness ==
    /\ pc = "returned"
    /\ input = <<"move", "to", "from", "hand", "to", "deck">>
    /\ output.err = "ok"
    /\ output.statement.card = ParsedCardName(<<"t", "o">>)
    /\ output.statement.from = "Hand"
    /\ output.statement.to = "Deck"

\* the verbs whose words are a card specifier and nothing else
SpecifierVerbs == {"bounce", "discard", "play", "sac"}

\* the statement of such a verb
SpecifierOp(verb) ==
    CASE verb = "bounce" -> "Bounce"
      [] verb = "discard" -> "Discard"
      [] verb = "play" -> "Play"
      [] verb = "sac" -> "Sacrifice"

\* the parser answered with the card specifier `card`
Specified(card) ==
    /\ output.err = "ok"
    /\ output.statement =
           [Statement(SpecifierOp(Head(Words(input)))) EXCEPT !.card = card]

\* the parser answered with the invalid-index error for the words
InvalidIndex(words) ==
    /\ output.err = "{} is not numeric after the $"
    /\ output.arg = join(words)
    /\ output.statement = NoStatement

\* a `$` followed by decimal digits only
DigitsOnly(word) ==
    LET text == Spelling[word]
    IN  /\ Len(text) >= 2
        /\ text[1] = "$"
        /\ \A k \in 2 .. Len(text) : IsDigit(text[k])

\* C28, as stated: the words after the verb, joined by single spaces,
\* give ByName(joined) when the joined string does not start with `$`,
\* ByIndex(k) when it is `$` followed by decimal digits only, and the
\* invalid-index error in every other `$` case; never ByName for a string
\* that starts with `$`.
C28_SpecifierAsStated ==
    pc = "returned" /\ Words(input) # <<>>
    /\ Head(Words(input)) \in SpecifierVerbs /\ Len(Words(input)) >= 2
        => LET words == Tail(Words(input))
           IN  IF Spelling[words[1]][1] # "$"
               THEN Specified(ParsedCardName(join(words)))
               ELSE IF Len(words) = 1 /\ DigitsOnly(words[1])
               THEN output.err = "ok" /\ output.statement.card.kind = "Index"
               ELSE InvalidIndex(words)

\* the words of the model that are an index, and the index
IndexWords == {"$1", "$+2"}
IndexOf(word) == IF word = "$1" THEN 1 ELSE 2

\* C28, amended: the words after the verb, joined by single spaces, give
\* ByName(joined) when the joined string does not start with `$`,
\* ByIndex(k) when it is `$`, an optional `+`, and the decimal digits of
\* a number k that fits the machine word (`$1`, `$+2`), and the
\* invalid-index error in every other `$` case (`$`, `$x`, `$-1`, `$1 2`,
\* `$18446744073709551616`); never ByName for a string that starts with
\* `$`.
C28_SpecifierGrammar ==
    pc = "returned" /\ Words(input) # <<>>
    /\ Head(Words(input)) \in SpecifierVerbs /\ Len(Words(input)) >= 2
        => LET words == Tail(Words(input))
           IN  /\ IF Spelling[words[1]][1] # "$"
                  THEN Specified(ParsedCardName(join(words)))
                  ELSE IF Len(words) = 1 /\ words[1] \in IndexWords
                  THEN Specified(ParsedIndex(IndexOf(words[1])))
                  ELSE InvalidIndex(words)
               /\ output.statement.card.kind = "CardName"
                      => output.statement.card.name[1] # "$"

C28_Witness ==
    /\ pc = "returned"
    /\ input = <<"bounce", "$+2">>
    /\ output.err = "ok"
    /\ output.statement.card = ParsedIndex(2)

\* the counts of the model that are a number, and the number
CountWords == {"2", "+2"}

NumericOp(verb) ==
    CASE verb = "draw" -> "Draw"
      [] verb = "inspect" -> "Inspect"
      [] verb = "mill" -> "Mill"

\* C29: `draw` and `inspect` without a word after them parse to a count
\* of 1; `mill` without a word is rejected; each of the three followed by
\* more than one word is rejected; followed by one word it gives the
\* number the word parses as (`2`, `+2`), and the invalid-count error
\* that quotes the word when the word parses as no such number (`x`,
\* `-1`, a number beyond the machine word).
C29_NumericVerbs ==
    pc = "returned" /\ Words(input) # <<>>
    /\ Head(Words(input)) \in {"draw", "inspect", "mill"}
        => LET verb == Head(Words(input))
               words == Tail(Words(input))
               counted(n) ==
                   /\ output.err = "ok"
                   /\ output.statement = [Statement(NumericOp(verb)) EXCEPT !.n = n]
               rejected(msgs) ==
                   /\ output.err \in msgs
                   /\ output.statement = NoStatement
           IN  CASE words = <<>> /\ verb # "mill" -> counted(1)
                 [] words = <<>> /\ verb = "mill" ->
                        rejected({"mill needs a single word count"})
                 [] Len(words) > 1 ->
                        rejected({"draw needs a single-word count",
                                  "inspect needs a single-word count",
                                  "mill needs a single word count"})
                 [] Len(words) = 1 /\ words[1] \in CountWords -> counted(2)
                 [] OTHER ->
                        /\ rejected({"{} is not a valid numeric count for draw",
                                     "{} is not a valid numeric count for inspect",
                                     "{} is not a valid numeric count for mill"})
                        /\ output.arg = Spelling[words[1]]

C29_Witness ==
    /\ pc = "returned"
    /\ input = <<"mill", "", "+2">>
    /\ output.err = "ok"
    /\ output.statement.op = "Mill"
    /\ output.statement.n = 2

\* the printed lines that show a card
CardLines(lines) == SelectSeq(lines, LAMBDA l : Len(l) = Len(InspectLine(0, Forest)))

\* C30: inspect(n) prints the names of the top min(n, |Deck|) cards of the
\* deck, in deck order; when n is 0 and when the deck is empty it prints a
\* message and no card, never nothing at all.
C30_InspectRenders ==
    Executed({"inspect"})
        => LET deck == prev["Deck"]
               shown == IF cmd.n < Len(deck) THEN cmd.n ELSE Len(deck)
               cards == CardLines(output)
           IN  /\ result = "ok"
               /\ Len(cards) = shown
               /\ \A k \in 1 .. shown : cards[k] = InspectLine(k - 1, deck[k])
               /\ cmd.n = 0 \/ deck = <<>>
                      => /\ output # <<>>
                         /\ Len(output[1]) = 1

\* the number of draws among the commands of a run
Draws(commands) == Len(SelectSeq(commands, LAMBDA c : c = "draw"))

\* C31: in a run of single draws, inspects and prints that started with
\* the deck D and the hand H, at every point after n <= |D| draws, before
\* and after the game state is printed, the hand is H followed
\* by D[0..n-1] in that order and the deck is the rest of D in its order;
\* an inspect(m) at that point shows the cards D[n..], the ones the next
\* draws take.
C31_DeckOrderIsDrawOrder ==
    LET D == prev["Deck"]
        H == prev["Hand"]
        n == Draws(input)
        left == Len(D) - n
    IN  n <= Len(D)
            => /\ zones["Hand"] = H \o SubSeq(D, 1, n)
               /\ zones["Deck"] = SubSeq(D, n + 1, Len(D))
               /\ cmd.op = "draw" => result = "ok"
               /\ cmd.op = "inspect"
                      => LET shown == IF cmd.n < left THEN cmd.n ELSE left
                             cards == CardLines(output)
                         IN  /\ Len(cards) = shown
                             /\ \A i \in 1 .. shown :
                                    cards[i] = InspectLine(i - 1, D[n + i])

C31_Witness ==
    /\ pc = "prompt"
    /\ input = <<"draw", "inspect", "draw", "draw">>
    /\ prev["Deck"] = <<Opt, Bear, Forest>>
    /\ prev["Hand"] = <<Bear>>
    /\ zones["Hand"] = <<Bear, Opt, Bear, Forest>>
    /\ zones["Deck"] = <<>>

====
